---- MODULE Spec2Model ----
(***************************************************************************)
(* Model of the aws-fis-controller reconcilers.                            *)
(*                                                                         *)
(*  - the ExperimentTemplate reconciler (package experimenttemplate):      *)
(*    Reconcile, getRequiredParameters, getTargetNamespaces,               *)
(*    createFISExperimentTemplate, updateFISExperimentTemplate,            *)
(*    handleDeletion, with the helpers of package aws / utils they call;   *)
(*  - the Experiment reconciler (package experiment): Reconcile,           *)
(*    resolveTemplateID, handleOneTimeExperiment,                          *)
(*    handleScheduledExperiment, startExperiment, syncExperimentState,     *)
(*    handleDeletion.                                                      *)
(*                                                                         *)
(* One ExperimentTemplate object and one Experiment object are modelled.   *)
(* A reconcile is one atomic step (the work queue runs at most one         *)
(* reconcile per key); every external call of the handler may succeed or   *)
(* fail, the outcome being chosen with \E.                                 *)
(***************************************************************************)
EXTENDS Integers, Sequences, FiniteSets, TLC

\* ----------------------------------------------------------------------
\* Bounds of the model
\* ----------------------------------------------------------------------
MaxGen == 2          \* metadata.generation ranges over 1..MaxGen
MaxTemplates == 2    \* provider templates the provider ever issues
MaxRuns == 2         \* provider experiments (runs) the provider ever issues
MaxTime == 4         \* the clock ranges over 0..MaxTime (ticks)
MaxFaults == 2       \* failing external calls injected into template reconciles
MaxExperimentFaults == 1  \* failing external calls injected into experiment reconciles
MaxHistory == 2      \* provider runs in a history handed to cleanupExperimentHistory
MaxScopeLen == 3     \* characters of a scope string handed to parseScope
MaxDurationLen == 4  \* characters of a duration string handed to convertDuration
MaxWorkers == 2      \* template reconciles (of different keys) in flight at once

\* ----------------------------------------------------------------------
\* Values
\* ----------------------------------------------------------------------
NoID == 0                         \* the empty identifier ""
NoTime == -1                      \* a nil *metav1.Time
NoToken == 0                      \* the empty spec.clientToken
UserToken == 100                  \* a spec.clientToken supplied by the user
ExternalTemplateID == 50          \* a spec.experimentTemplate.id supplied by the user
TicksPerMinute == 2               \* clock ticks in one minute
EveryMinute == "* * * * *"
EveryTwoMinutes == "*/2 * * * *"
Unparsable == "bad"
Schedules == {"", EveryMinute, EveryTwoMinutes, Unparsable}
Running == {"initiating", "pending", "running"}
EndStamp == 0                     \* the EndTime the provider reports for an ended run
OtherTemplateID == 51             \* a provider template no object of the model uses
NoLimit == -1                     \* a nil history limit
DefaultSuccessLimit == 3          \* successfulExperimentsHistoryLimit when nil
DefaultFailedLimit == 1           \* failedExperimentsHistoryLimit when nil
Namespaces == {"ns1", "ns2"}
Triple == {"sa", "role", "rb"}    \* ServiceAccount, Role, RoleBinding fis-<template>
Stages == {"none", "sa", "role", "rb"}   \* which call of an RBAC helper fails
Descriptions == {"d1", "d2"}
\* spec.targets, abstracted to the set of the targets' namespace fields
\* ("" is a target group with no namespace).
TargetChoices == {{"ns1"}, {"ns1", "ns2"}, {""}, {"ns1", ""}}
AutoRoleArn == "arn:auto"         \* ARN of the role named GenerateRoleName("", name)
MaxAttempts == 3                  \* access-entry attempts for an auto-created role
WaitUnit == 5                     \* seconds of wait per attempt number
NilClient == 0                    \* a nil *awsfis.FISClient
InjectedClient == MaxWorkers + 1  \* the client built before the manager starts
Workers == 1..MaxWorkers          \* worker w also names the client it constructs

VARIABLES
    cfg,        \* process environment, annotations and controller flags
    tObj,       \* the ExperimentTemplate object in the object store
    fis,        \* provider templates: id -> [description, targets, roleArn]
    fisIssued,  \* number of template identifiers the provider has issued
    iam,        \* the role named GenerateRoleName("", name): [exists, policy, own]
    ae,         \* cluster access entries: set of principal ARNs
    rbac,       \* namespace -> subset of Triple present in it
    tTrace,     \* external calls issued by the latest template reconcile
    tPath,      \* branch taken by the latest template reconcile
    tResult,    \* (ctrl.Result, error) of the latest template reconcile
    eObj,       \* the Experiment object in the object store
    runs,       \* provider experiments: id -> [token, templateID, state, cycle]
    now,        \* the clock
    eTrace,     \* external calls issued by the latest experiment reconcile
    ePath,      \* branch taken by the latest experiment reconcile
    eResult,    \* (ctrl.Result, error) of the latest experiment reconcile
    notReadySeen, \* a reconcile has returned the template-not-ready error
    eLog,       \* runs the latest experiment reconcile logged as exceeding a history limit
    conv,       \* a call of a pure helper: [fn, in, out], strings as sequences of characters
    faults,     \* number of failures injected so far
    fisClient,  \* the FISClient field of the ExperimentTemplate Reconciler
    pc,         \* worker -> [at, used]: position in Reconcile, client last called
    lastOp      \* name of the latest step

tVars == <<cfg, tObj, fis, fisIssued, iam, ae, rbac, tTrace, tPath, tResult>>
eVars == <<eObj, runs, now, eTrace, ePath, eResult, notReadySeen, eLog, conv>>
vars == <<cfg, tObj, fis, fisIssued, iam, ae, rbac, tTrace, tPath, tResult,
          eObj, runs, now, eTrace, ePath, eResult, notReadySeen, eLog, conv, faults,
          fisClient, pc, lastOp>>
rVars == <<fisClient, pc>>

\* One entry of a trace: the call, whether it succeeded, and its argument.
Call(c, ok, ns, n) == [call |-> c, ok |-> ok, ns |-> ns, n |-> n]

CallNames(tr) == [i \in 1..Len(tr) |-> tr[i].call]

HasCall(tr, c) == \E i \in 1..Len(tr) : tr[i].call = c

Perms(S) == {f \in [1..Cardinality(S) -> S] : \A i, j \in 1..Cardinality(S) : f[i] = f[j] => i = j}

\* A fixed enumeration of a set of namespaces.
RECURSIVE SetToSeq(_)
SetToSeq(S) == IF S = {} THEN <<>>
               ELSE LET x == CHOOSE y \in S : \A z \in S : y = "ns1" \/ z /= "ns1"
                    IN <<x>> \o SetToSeq(S \ {x})

\* ----------------------------------------------------------------------
\* Configuration the template reconciler reads
\* ----------------------------------------------------------------------
ConfigChoices ==
    { [envRoleArn |-> "", annRoleArn |-> "", envCluster |-> "", annCluster |-> "", clusterARN |-> "arn:cluster", eks |-> TRUE],
      [envRoleArn |-> "", annRoleArn |-> "arn:ann", envCluster |-> "", annCluster |-> "c-ann", clusterARN |-> "arn:cluster", eks |-> TRUE],
      [envRoleArn |-> "arn:env", annRoleArn |-> "arn:ann", envCluster |-> "c-env", annCluster |-> "c-ann", clusterARN |-> "", eks |-> FALSE],
      [envRoleArn |-> "", annRoleArn |-> "", envCluster |-> "", annCluster |-> "", clusterARN |-> "", eks |-> FALSE] }

\* ----------------------------------------------------------------------
\* IAM helpers (internal/aws/iam.go)
\* ----------------------------------------------------------------------
RoleOutcomes == {"ok", "checkErr", "createErr", "policyErr"}

\* The role named GenerateRoleName("", name) does not exist; own is who
\* created the role ("system": CreateFISRole of this controller, "admin":
\* someone else).
NoRole == [exists |-> FALSE, policy |-> FALSE, own |-> "none"]

\* A role of that name that exists before the controller sees the template.
AdminRole == [exists |-> TRUE, policy |-> TRUE, own |-> "admin"]

\* CreateRole followed by PutRolePolicy; a failing PutRolePolicy leaves the
\* role behind without its inline policy.
CreateFISRole(iamSt, out) ==
    IF out = "createErr"
    THEN [arn |-> "", err |-> TRUE, iam |-> iamSt,
          trace |-> <<Call("CreateRole", FALSE, "", 0)>>]
    ELSE IF out = "policyErr"
    THEN [arn |-> "", err |-> TRUE,
          iam |-> [exists |-> TRUE, policy |-> FALSE, own |-> "system"],
          trace |-> <<Call("CreateRole", TRUE, "", 0), Call("PutRolePolicy", FALSE, "", 0)>>]
    ELSE [arn |-> AutoRoleArn, err |-> FALSE,
          iam |-> [exists |-> TRUE, policy |-> TRUE, own |-> "system"],
          trace |-> <<Call("CreateRole", TRUE, "", 0), Call("PutRolePolicy", TRUE, "", 0)>>]

EnsureIAMRole(iamSt, roleArn, out) ==
    IF roleArn /= ""
    THEN [arn |-> roleArn, err |-> FALSE, iam |-> iamSt, trace |-> <<>>]
    ELSE IF out = "checkErr"
    THEN [arn |-> "", err |-> TRUE, iam |-> iamSt, trace |-> <<>>]
    ELSE IF iamSt.exists
    THEN [arn |-> AutoRoleArn, err |-> FALSE, iam |-> iamSt, trace |-> <<>>]
    ELSE CreateFISRole(iamSt, out)

\* DeleteFISRole: delete the inline policies, then the role.
DeleteRoleOutcomes == {"ok", "checkErr", "policyErr", "roleErr"}

DeleteFISRole(iamSt, out) ==
    IF out = "policyErr"
    THEN [err |-> TRUE, iam |-> iamSt]
    ELSE IF out = "roleErr"
    THEN [err |-> TRUE, iam |-> [iamSt EXCEPT !.policy = FALSE]]
    ELSE [err |-> FALSE, iam |-> NoRole]

DeleteIAMRole(iamSt, out) ==
    IF out = "checkErr" THEN [err |-> TRUE, iam |-> iamSt]
    ELSE IF ~iamSt.exists THEN [err |-> FALSE, iam |-> iamSt]
    ELSE DeleteFISRole(iamSt, out)

\* ----------------------------------------------------------------------
\* Access triples (utils.SetupExperimentTemplateRBAC / Delete...)
\* ----------------------------------------------------------------------
\* Faulty variant of SetupExperimentTemplateRBAC: already-exists is returned
\* as an error.
SetupExperimentTemplateRBACStrict(objs, stage) ==
    IF stage = "sa" \/ "sa" \in objs THEN [objs |-> objs, err |-> TRUE]
    ELSE IF stage = "role" \/ "role" \in objs
    THEN [objs |-> objs \cup {"sa"}, err |-> TRUE]
    ELSE IF stage = "rb" \/ "rb" \in objs
    THEN [objs |-> objs \cup {"sa", "role"}, err |-> TRUE]
    ELSE [objs |-> objs \cup Triple, err |-> FALSE]

\* Create ServiceAccount, Role, RoleBinding in that order; already-exists is
\* tolerated; the call named by stage fails with another error.
SetupExperimentTemplateRBAC(objs, stage) ==
    IF stage = "sa" THEN [objs |-> objs, err |-> TRUE]
    ELSE IF stage = "role" THEN [objs |-> objs \cup {"sa"}, err |-> TRUE]
    ELSE IF stage = "rb" THEN [objs |-> objs \cup {"sa", "role"}, err |-> TRUE]
    ELSE [objs |-> objs \cup Triple, err |-> FALSE]

\* Delete RoleBinding, Role, ServiceAccount in that order; not-found is
\* tolerated; the call named by stage fails with another error.
DeleteExperimentTemplateRBAC(objs, stage) ==
    IF stage = "rb" THEN [objs |-> objs, err |-> TRUE]
    ELSE IF stage = "role" THEN [objs |-> objs \ {"rb"}, err |-> TRUE]
    ELSE IF stage = "sa" THEN [objs |-> objs \ {"rb", "role"}, err |-> TRUE]
    ELSE [objs |-> {}, err |-> FALSE]

\* A call of the access-triple helpers for namespace ns put before the calls
\* of the remaining namespaces.
SetupCallThen(ns, rest) ==
    [rbac |-> rest.rbac, err |-> rest.err,
     trace |-> <<Call("SetupRBAC", TRUE, ns, 0)>> \o rest.trace]

DeleteCallThen(ns, ok, rest) ==
    [rbac |-> rest.rbac, trace |-> <<Call("DeleteRBAC", ok, ns, 0)>> \o rest.trace]

\* The loop `for _, ns := range targetNamespaces { Setup... ; if err return }`
RECURSIVE SetupRBACLoop(_, _, _, _, _)
SetupRBACStep(order, i, rb, failAt, stage, r) ==
    IF r.err
    THEN [rbac |-> [rb EXCEPT ![order[i]] = r.objs], err |-> TRUE,
          trace |-> <<Call("SetupRBAC", FALSE, order[i], 0)>>]
    ELSE SetupCallThen(order[i],
                       SetupRBACLoop(order, i + 1, [rb EXCEPT ![order[i]] = r.objs],
                                     failAt, stage))

SetupRBACLoop(order, i, rb, failAt, stage) ==
    IF i > Len(order) THEN [rbac |-> rb, err |-> FALSE, trace |-> <<>>]
    ELSE SetupRBACStep(order, i, rb, failAt, stage,
                       SetupExperimentTemplateRBAC(rb[order[i]],
                                                   IF i = failAt THEN stage ELSE "none"))

\* The loop `for _, ns := range targetNamespaces { Delete... ; log on error }`
RECURSIVE DeleteRBACLoop(_, _, _, _)
\* Faulty variant of DeleteRBACStep: the loop ends at the first failing
\* delete.
DeleteRBACStepStopping(order, i, rb, stageOf, r) ==
    IF r.err
    THEN [rbac |-> [rb EXCEPT ![order[i]] = r.objs],
          trace |-> <<Call("DeleteRBAC", FALSE, order[i], 0)>>]
    ELSE DeleteCallThen(order[i], TRUE,
                        DeleteRBACLoop(order, i + 1, [rb EXCEPT ![order[i]] = r.objs],
                                       stageOf))

DeleteRBACStep(order, i, rb, stageOf, r) ==
    DeleteCallThen(order[i], ~r.err,
                   DeleteRBACLoop(order, i + 1, [rb EXCEPT ![order[i]] = r.objs], stageOf))

DeleteRBACLoop(order, i, rb, stageOf) ==
    IF i > Len(order) THEN [rbac |-> rb, trace |-> <<>>]
    ELSE DeleteRBACStep(order, i, rb, stageOf,
                        DeleteExperimentTemplateRBAC(rb[order[i]], stageOf[order[i]]))

\* ----------------------------------------------------------------------
\* Cluster access entries.  EnsureAccessEntry and DeleteAccessEntryIfExists
\* are called by the reconciler; they follow the check-existence /
\* create-if-absent and check-existence / delete-if-present contract.
\* ----------------------------------------------------------------------
EnsureAccessEntry(entries, roleArn, ok) ==
    IF ok THEN entries \cup {roleArn} ELSE entries

DeleteAccessEntryIfExists(entries, roleArn, ok) ==
    IF ok THEN entries \ {roleArn} ELSE entries

\* A failed attempt put before the remaining attempts.
AttemptThen(c, rest) ==
    [ae |-> rest.ae, trace |-> <<c>> \o rest.trace, cancelled |-> rest.cancelled]

\* The retry loop of createFISExperimentTemplate for an auto-created role:
\* attempt a waits a*WaitUnit seconds, then calls EnsureAccessEntry; the
\* first `fails` attempts fail; the context is cancelled during the wait of
\* attempt cancelAt (0: never).
RECURSIVE AccessEntryRetry(_, _, _, _, _)
AccessEntryRetry(entries, roleArn, attempt, fails, cancelAt) ==
    IF attempt > MaxAttempts \/ attempt = cancelAt
    THEN [ae |-> entries, trace |-> <<>>, cancelled |-> attempt = cancelAt]
    ELSE IF attempt > fails
    THEN [ae |-> EnsureAccessEntry(entries, roleArn, TRUE),
          trace |-> <<Call("EnsureAccessEntry", TRUE, "", attempt * WaitUnit)>>,
          cancelled |-> FALSE]
    ELSE AttemptThen(Call("EnsureAccessEntry", FALSE, "", attempt * WaitUnit),
                     AccessEntryRetry(entries, roleArn, attempt + 1, fails, cancelAt))

\* ----------------------------------------------------------------------
\* Provider templates (FISClient, internal/aws/eks.go)
\* ----------------------------------------------------------------------
\* convertTargets: a target with no namespace is sent as namespace "default".
convertTargets(targets) == {IF ns = "" THEN "default" ELSE ns : ns \in targets}

\* CreateExperimentTemplate sends a fresh uuid as ClientToken on every call,
\* so the provider creates a new template on every successful call.
CreateExperimentTemplate(templates, issued, spec, roleArn, ok) ==
    IF ~ok \/ issued >= MaxTemplates
    THEN [err |-> TRUE, id |-> NoID, fis |-> templates, issued |-> issued]
    ELSE LET id == issued + 1
             rec == [description |-> spec.description,
                     targets |-> convertTargets(spec.targets),
                     roleArn |-> roleArn]
         IN [err |-> FALSE, id |-> id, issued |-> id,
             fis |-> [k \in DOMAIN templates \cup {id} |->
                         IF k = id THEN rec ELSE templates[k]]]

\* Faulty variant of UpdateExperimentTemplate: the description is not sent.
UpdateExperimentTemplateNoDescription(templates, spec, id, ok) ==
    IF ~ok \/ id \notin DOMAIN templates
    THEN [err |-> TRUE, fis |-> templates]
    ELSE [err |-> FALSE, fis |-> templates]

\* Faulty variant of UpdateExperimentTemplate: the targets of the spec are
\* sent along with the description.
UpdateExperimentTemplateWithTargets(templates, spec, id, ok) ==
    IF ~ok \/ id \notin DOMAIN templates
    THEN [err |-> TRUE, fis |-> templates]
    ELSE [err |-> FALSE,
          fis |-> [templates EXCEPT ![id].description = spec.description,
                                    ![id].targets = convertTargets(spec.targets)]]

\* UpdateExperimentTemplate sends Id and Description only.  The provider
\* rejects an unknown identifier.
UpdateExperimentTemplate(templates, spec, id, ok) ==
    IF ~ok \/ id \notin DOMAIN templates
    THEN [err |-> TRUE, fis |-> templates]
    ELSE [err |-> FALSE,
          fis |-> [templates EXCEPT ![id].description = spec.description]]

\* DeleteExperimentTemplate: any provider error, not-found included, is
\* returned to the caller.
DeleteExperimentTemplate(templates, id, ok) ==
    IF ~ok \/ id \notin DOMAIN templates
    THEN [err |-> TRUE, fis |-> templates]
    ELSE [err |-> FALSE, fis |-> [k \in DOMAIN templates \ {id} |-> templates[k]]]

\* ----------------------------------------------------------------------
\* ExperimentTemplate reconciler (package experimenttemplate)
\* ----------------------------------------------------------------------
getTargetNamespaces(t) == {ns \in t.spec.targets : ns /= ""}

FirstNonEmpty(a, b, c) == IF a /= "" THEN a ELSE IF b /= "" THEN b ELSE c

\* The values getRequiredParameters returns, from the role ens it settled on
\* and the cluster identifier cid.
RequiredParameters(ens, cid) ==
    [roleArn |-> IF ens.err \/ cid = "" THEN "" ELSE ens.arn,
     clusterIdentifier |-> IF ens.err THEN "" ELSE cid,
     err |-> ens.err \/ cid = "",
     iam |-> ens.iam, trace |-> ens.trace]

\* Faulty variant of getRequiredParameters: the annotations are read before
\* the environment.
getRequiredParametersAnnotationFirst(t, c, iamSt, out) ==
    RequiredParameters(
        IF FirstNonEmpty(c.annRoleArn, c.envRoleArn, t.status.roleArn) /= ""
        THEN [arn |-> FirstNonEmpty(c.annRoleArn, c.envRoleArn, t.status.roleArn),
              err |-> FALSE, iam |-> iamSt, trace |-> <<>>]
        ELSE EnsureIAMRole(iamSt, "", out),
        FirstNonEmpty(c.annCluster, c.envCluster, c.clusterARN))

\* roleArn: FIS_ROLE_ARN, else the role-arn annotation, else status.roleArn,
\* else EnsureIAMRole.  clusterIdentifier: CLUSTER_IDENTIFIER, else the
\* cluster-identifier annotation, else r.ClusterARN, else an error.
getRequiredParameters(t, c, iamSt, out) ==
    RequiredParameters(
        IF FirstNonEmpty(c.envRoleArn, c.annRoleArn, t.status.roleArn) /= ""
        THEN [arn |-> FirstNonEmpty(c.envRoleArn, c.annRoleArn, t.status.roleArn),
              err |-> FALSE, iam |-> iamSt, trace |-> <<>>]
        ELSE EnsureIAMRole(iamSt, "", out),
        FirstNonEmpty(c.envCluster, c.annCluster, c.clusterARN))

\* The state a reconcile works on and returns.
World(t) == [status |-> t.status, fis |-> fis, issued |-> fisIssued, iam |-> iam,
             ae |-> ae, rbac |-> rbac, trace |-> <<>>, err |-> FALSE]

\* r.Status().Update(ctx, template)
StatusUpdate(W, newStatus, ok) ==
    [W EXCEPT !.status = IF ok THEN newStatus ELSE W.status,
              !.trace = W.trace \o <<Call("StatusUpdate", ok, "", 0)>>]

\* The access-entry step of createFISExperimentTemplate.
CreateAccessEntryStep(t, c, entries, roleArn, fails, cancelAt) ==
    IF c.eks /\ roleArn /= ""
    THEN IF t.spec.autoCreateRole
         THEN AccessEntryRetry(entries, roleArn, 1, fails, cancelAt)
         ELSE [ae |-> EnsureAccessEntry(entries, roleArn, fails = 0),
               trace |-> <<Call("EnsureAccessEntry", fails = 0, "", 0)>>,
               cancelled |-> FALSE]
    ELSE [ae |-> entries, trace |-> <<>>, cancelled |-> FALSE]

\* Outcomes of the external calls of one create/update reconcile.  An
\* outcome names what each call of the handler returns; calls the handler
\* does not reach keep the value of DefaultOutcome.
DefaultOutcome(t) ==
    [role |-> "ok", order |-> SetToSeq(getTargetNamespaces(t)), rbacFailAt |-> 0,
     rbacStage |-> "sa", fisOk |-> TRUE, compStage |-> [ns \in Namespaces |-> "none"],
     aeFails |-> 0, cancelAt |-> 0, statusOk |-> TRUE]

\* Stage functions that fail only in namespaces of nss.
StageChoices(nss) ==
    {f \in [Namespaces -> Stages] : \A ns \in Namespaces \ nss : f[ns] = "none"}

RoleFailures(t, c) ==
    IF FirstNonEmpty(c.envRoleArn, c.annRoleArn, t.status.roleArn) /= "" THEN {}
    ELSE IF iam.exists THEN {"checkErr"}
    ELSE RoleOutcomes \ {"ok"}

AccessEntryChoices(t, c, create) ==
    IF ~c.eks THEN {<<0, 0>>}
    ELSE IF create /\ t.spec.autoCreateRole
    THEN {<<f, k>> \in (0..MaxAttempts) \X (0..MaxAttempts) : k <= f + 1}
    ELSE {<<0, 0>>, <<1, 0>>}

CreateOutcomesFrom(D, nss, t, c, create) ==
    {[D EXCEPT !.role = r] : r \in RoleFailures(t, c)}
    \cup {[D EXCEPT !.order = ord, !.rbacFailAt = i, !.rbacStage = st] :
             ord \in Perms(nss), i \in 1..Cardinality(nss), st \in Stages \ {"none"}}
    \cup {[D EXCEPT !.fisOk = FALSE, !.compStage = f, !.statusOk = ok] :
             f \in IF create THEN StageChoices(nss) ELSE {D.compStage}, ok \in BOOLEAN}
    \cup {[D EXCEPT !.aeFails = a[1], !.cancelAt = a[2], !.statusOk = ok] :
             a \in AccessEntryChoices(t, c, create), ok \in BOOLEAN}

CreateOutcomes(t, c, create) ==
    CreateOutcomesFrom(DefaultOutcome(t), getTargetNamespaces(t), t, c, create)

\* createFISExperimentTemplate is modelled step by step; each step takes the
\* state the steps before it left and the value the call before it returned.

\* CreateExperimentTemplate failed: delete the access triples just created
\* (d is what the deletions did), record Failed.
createCompensate(W3, o, d) ==
    StatusUpdate([W3 EXCEPT !.rbac = d.rbac, !.trace = W3.trace \o d.trace, !.err = TRUE],
                 [W3.status EXCEPT !.phase = "Failed", !.message = "createErr"],
                 o.statusOk)

\* The access-entry step returned a: persist templateID, role, Ready and
\* observedGeneration.
createPersist(t, o, p, cr, W3, a) ==
    [StatusUpdate([W3 EXCEPT !.ae = a.ae, !.trace = W3.trace \o a.trace],
                  [templateID |-> cr.id, roleArn |-> p.roleArn,
                   phase |-> "Ready", message |-> "created",
                   observedGeneration |-> t.generation],
                  o.statusOk /\ ~a.cancelled)
     EXCEPT !.err = ~(o.statusOk /\ ~a.cancelled)]

\* CreateExperimentTemplate returned cr.
createWithTemplate(t, c, W2, o, p, cr) ==
    LET W3 == [W2 EXCEPT !.fis = cr.fis, !.issued = cr.issued,
                         !.trace = W2.trace
                                   \o <<Call("CreateExperimentTemplate", ~cr.err, "", 0)>>]
    IN IF cr.err
       THEN createCompensate(W3, o, DeleteRBACLoop(o.order, 1, W2.rbac, o.compStage))
       ELSE createPersist(t, o, p, cr, W3,
                          CreateAccessEntryStep(t, c, W2.ae, p.roleArn, o.aeFails, o.cancelAt))

\* The access-triple loop returned s.
createWithRBAC(t, c, W1, o, p, s) ==
    IF s.err
    THEN [W1 EXCEPT !.rbac = s.rbac, !.trace = W1.trace \o s.trace, !.err = TRUE]
    ELSE createWithTemplate(t, c,
                            [W1 EXCEPT !.rbac = s.rbac, !.trace = W1.trace \o s.trace],
                            o, p,
                            CreateExperimentTemplate(W1.fis, W1.issued, t.spec, p.roleArn,
                                                     o.fisOk))

\* Faulty variant of createWithParameters: an empty set of target namespaces
\* is not rejected.
createWithParametersAnyTargets(t, c, W0, o, p) ==
    IF p.err
    THEN [W0 EXCEPT !.iam = p.iam, !.trace = p.trace, !.err = TRUE]
    ELSE createWithRBAC(t, c, [W0 EXCEPT !.iam = p.iam, !.trace = p.trace], o, p,
                        SetupRBACLoop(o.order, 1, W0.rbac, o.rbacFailAt, o.rbacStage))

\* getRequiredParameters returned p.
createWithParameters(t, c, W0, o, p) ==
    IF p.err \/ getTargetNamespaces(t) = {}
    THEN [W0 EXCEPT !.iam = p.iam, !.trace = p.trace, !.err = TRUE]
    ELSE createWithRBAC(t, c, [W0 EXCEPT !.iam = p.iam, !.trace = p.trace], o, p,
                        SetupRBACLoop(o.order, 1, W0.rbac, o.rbacFailAt, o.rbacStage))

createFISExperimentTemplate(t, c, W0, o) ==
    createWithParameters(t, c, W0, o, getRequiredParameters(t, c, W0.iam, o.role))

\* updateFISExperimentTemplate, step by step in the same way.

\* The access entry is re-ensured; persist Ready and observedGeneration.
updatePersist(t, o, p, W4) ==
    [StatusUpdate(W4, [W4.status EXCEPT !.roleArn = p.roleArn, !.phase = "Ready",
                                        !.message = "updated",
                                        !.observedGeneration = t.generation],
                  o.statusOk)
     EXCEPT !.err = ~o.statusOk]

\* Faulty variant of updateWithTemplate: a failed update is recorded as
\* observed.
updateWithTemplateMarksObserved(t, c, W2, o, p, up) ==
    LET W3 == [W2 EXCEPT !.fis = up.fis,
                         !.trace = W2.trace
                                   \o <<Call("UpdateExperimentTemplate", ~up.err, "", 0)>>]
    IN IF up.err
       THEN StatusUpdate([W3 EXCEPT !.err = TRUE],
                         [W3.status EXCEPT !.phase = "Failed", !.message = "updateErr",
                                           !.observedGeneration = t.generation],
                         o.statusOk)
       ELSE updatePersist(t, o, p,
                IF c.eks /\ p.roleArn /= ""
                THEN [W3 EXCEPT !.ae = EnsureAccessEntry(W3.ae, p.roleArn, o.aeFails = 0),
                                !.trace = W3.trace
                                          \o <<Call("EnsureAccessEntry", o.aeFails = 0, "", 0)>>]
                ELSE W3)

\* UpdateExperimentTemplate returned up.
updateWithTemplate(t, c, W2, o, p, up) ==
    LET W3 == [W2 EXCEPT !.fis = up.fis,
                         !.trace = W2.trace
                                   \o <<Call("UpdateExperimentTemplate", ~up.err, "", 0)>>]
    IN IF up.err
       THEN StatusUpdate([W3 EXCEPT !.err = TRUE],
                         [W3.status EXCEPT !.phase = "Failed", !.message = "updateErr"],
                         o.statusOk)
       ELSE updatePersist(t, o, p,
                IF c.eks /\ p.roleArn /= ""
                THEN [W3 EXCEPT !.ae = EnsureAccessEntry(W3.ae, p.roleArn, o.aeFails = 0),
                                !.trace = W3.trace
                                          \o <<Call("EnsureAccessEntry", o.aeFails = 0, "", 0)>>]
                ELSE W3)

\* The access-triple loop returned s.
updateWithRBAC(t, c, W1, o, p, s) ==
    IF s.err
    THEN [W1 EXCEPT !.rbac = s.rbac, !.trace = W1.trace \o s.trace, !.err = TRUE]
    ELSE updateWithTemplate(t, c,
                            [W1 EXCEPT !.rbac = s.rbac, !.trace = W1.trace \o s.trace],
                            o, p,
                            UpdateExperimentTemplate(W1.fis, t.spec, t.status.templateID,
                                                     o.fisOk))

\* getRequiredParameters returned p.
updateWithParameters(t, c, W0, o, p) ==
    IF p.err \/ getTargetNamespaces(t) = {}
    THEN [W0 EXCEPT !.iam = p.iam, !.trace = p.trace, !.err = TRUE]
    ELSE updateWithRBAC(t, c, [W0 EXCEPT !.iam = p.iam, !.trace = p.trace], o, p,
                        SetupRBACLoop(o.order, 1, W0.rbac, o.rbacFailAt, o.rbacStage))

updateFISExperimentTemplate(t, c, W0, o) ==
    updateWithParameters(t, c, W0, o, getRequiredParameters(t, c, W0.iam, o.role))

\* Outcomes of the external calls of one delete reconcile.
DeleteOutcomes(t, c) ==
    {[fisOk |-> FALSE, aeOk |-> TRUE, role |-> "ok",
      rbacStage |-> [ns \in Namespaces |-> "none"], updateOk |-> TRUE]}
    \cup [fisOk : {TRUE},
          aeOk : IF c.eks /\ t.status.roleArn /= "" THEN BOOLEAN ELSE {TRUE},
          role : IF t.status.roleArn = "" THEN {"ok"}
                 ELSE IF iam.exists THEN DeleteRoleOutcomes ELSE {"ok", "checkErr"},
          rbacStage : StageChoices(getTargetNamespaces(t)),
          updateOk : BOOLEAN]

\* handleDeletion, step by step.

\* Step 4: the access triples of every target namespace; d is what the
\* deletions did.
deleteTriplesDone(W3, d) ==
    [W3 EXCEPT !.rbac = d.rbac, !.trace = W3.trace \o d.trace]

deleteTriples(t, W3, o) ==
    deleteTriplesDone(W3, DeleteRBACLoop(SetToSeq(getTargetNamespaces(t)), 1, W3.rbac,
                                         o.rbacStage))

\* Step 3: the role, when status.roleArn is set; dr is what DeleteIAMRole
\* returned.
deleteRoleDone(t, W2, o, dr) ==
    deleteTriples(t, [W2 EXCEPT !.iam = dr.iam,
                                !.trace = W2.trace
                                          \o <<Call("DeleteIAMRole", ~dr.err, "", 0)>>], o)

deleteRole(t, W2, o) ==
    IF t.status.roleArn /= ""
    THEN deleteRoleDone(t, W2, o, DeleteIAMRole(W2.iam, o.role))
    ELSE deleteTriples(t, W2, o)

\* Step 2: the cluster access entry.
deleteAccessEntry(t, c, W1, o) ==
    deleteRole(t,
               IF c.eks /\ t.status.roleArn /= ""
               THEN [W1 EXCEPT !.ae = DeleteAccessEntryIfExists(W1.ae, t.status.roleArn, o.aeOk),
                               !.trace = W1.trace
                                         \o <<Call("DeleteAccessEntry", o.aeOk, "", 0)>>]
               ELSE W1,
               o)

\* Step 1 returned del: an error ends handleDeletion.
deleteTemplateDone(t, c, W0, o, del) ==
    IF del.err
    THEN [W0 EXCEPT !.fis = del.fis,
                    !.trace = <<Call("DeleteExperimentTemplate", FALSE, "", 0)>>,
                    !.err = TRUE]
    ELSE deleteAccessEntry(t, c,
                           [W0 EXCEPT !.fis = del.fis,
                                      !.trace = <<Call("DeleteExperimentTemplate", TRUE, "", 0)>>],
                           o)

handleDeletion(t, c, W0, o) ==
    IF t.status.templateID /= NoID
    THEN deleteTemplateDone(t, c, W0, o,
                            DeleteExperimentTemplate(W0.fis, t.status.templateID, o.fisOk))
    ELSE deleteAccessEntry(t, c, W0, o)

B2N(b) == IF b THEN 1 ELSE 0

\* Number of failures an outcome injects (a streak of failing access-entry
\* attempts is one failure: the role has not propagated yet).
CreateFaults(o) ==
    B2N(o.role /= "ok") + B2N(o.rbacFailAt > 0) + B2N(~o.fisOk)
    + Cardinality({ns \in Namespaces : o.compStage[ns] /= "none"})
    + B2N(o.aeFails > 0) + B2N(o.cancelAt > 0) + B2N(~o.statusOk)

DeleteFaults(o) ==
    B2N(~o.fisOk) + B2N(~o.aeOk) + B2N(o.role /= "ok")
    + Cardinality({ns \in Namespaces : o.rbacStage[ns] /= "none"})
    + B2N(~o.updateOk)

\* Faulty variant of NeedsUpdate: the generation comparison is lost.
NeedsUpdateAlways(t) == TRUE

\* `Generation != Status.ObservedGeneration` in Reconcile.
NeedsUpdate(t) == t.generation /= t.status.observedGeneration

\* Writes the outcome of a template reconcile back to the state.
TCommit(W, t2, path, result) ==
    /\ tObj' = [t2 EXCEPT !.status = W.status]
    /\ fis' = W.fis
    /\ fisIssued' = W.issued
    /\ iam' = W.iam
    /\ ae' = W.ae
    /\ rbac' = W.rbac
    /\ tTrace' = W.trace
    /\ tPath' = path
    /\ tResult' = result

Result(err, requeue, after) == [err |-> err, requeue |-> requeue, after |-> after]

\* Faulty variant of TFinishDeletion: the error of handleDeletion is dropped
\* and the finalizer removed.
TFinishDeletionIgnoringError(W, o) ==
    TCommit([W EXCEPT !.trace = W.trace
                                \o <<Call("UpdateRemoveFinalizer", o.updateOk, "", 0)>>],
            IF o.updateOk
            THEN [tObj EXCEPT !.finalizer = FALSE, !.exists = FALSE]
            ELSE tObj,
            "delete", Result(~o.updateOk, FALSE, 0))

\* Reconcile after handleDeletion returned W: an error is returned as it is,
\* otherwise the finalizer is removed.
TFinishDeletion(W, o) ==
    IF W.err
    THEN TCommit(W, tObj, "delete", Result(TRUE, FALSE, 0))
    ELSE TCommit([W EXCEPT !.trace = W.trace
                                     \o <<Call("UpdateRemoveFinalizer", o.updateOk, "", 0)>>],
                 IF o.updateOk
                 THEN [tObj EXCEPT !.finalizer = FALSE, !.exists = FALSE]
                 ELSE tObj,
                 "delete", Result(~o.updateOk, FALSE, 0))

\* Reconcile after the create or update handler returned W.
TFinish(W, path) == TCommit(W, tObj, path, Result(W.err, FALSE, 0))

\* Reconciler.Reconcile of package experimenttemplate, for an object that the
\* store returns.  An object with a deletion timestamp and no finalizer is
\* removed by the store.  At most maxF failures have been injected after it.
TReconcileWith(maxF) ==
    /\ tObj.exists
    /\ lastOp' = "TReconcile"
    /\ UNCHANGED rVars
    /\ UNCHANGED <<cfg, eVars>>
    /\ faults' \in faults..maxF
    /\ IF tObj.deleting
       THEN IF tObj.finalizer
            THEN \E o \in {x \in DeleteOutcomes(tObj, cfg) : DeleteFaults(x) = faults' - faults} :
                   TFinishDeletion(handleDeletion(tObj, cfg, World(tObj), o), o)
            ELSE faults' = faults /\ TCommit(World(tObj), tObj, "gone", Result(FALSE, FALSE, 0))
       ELSE IF ~tObj.finalizer
       THEN \E ok \in BOOLEAN :
              /\ faults' = faults + B2N(~ok)
              /\ TCommit([World(tObj) EXCEPT !.trace = <<Call("UpdateAddFinalizer", ok, "", 0)>>],
                      [tObj EXCEPT !.finalizer = ok],
                      "finalizer", Result(~ok, ok, 0))
       ELSE IF tObj.status.templateID /= NoID
       THEN IF NeedsUpdate(tObj)
            THEN \E o \in {x \in CreateOutcomes(tObj, cfg, FALSE) : CreateFaults(x) = faults' - faults} :
                   TFinish(updateFISExperimentTemplate(tObj, cfg, World(tObj), o), "update")
            ELSE faults' = faults /\ TCommit(World(tObj), tObj, "noop", Result(FALSE, FALSE, 0))
       ELSE \E o \in {x \in CreateOutcomes(tObj, cfg, TRUE) : CreateFaults(x) = faults' - faults} :
              TFinish(createFISExperimentTemplate(tObj, cfg, World(tObj), o), "create")

TReconcile == TReconcileWith(MaxFaults)

\* A template reconcile in which no external call fails.
TReconcileNoFault == TReconcileWith(faults)

\* The user edits spec (the store increments metadata.generation).
UserUpdateTemplate ==
    /\ tObj.exists /\ ~tObj.deleting
    /\ tObj.generation < MaxGen
    /\ \E d \in Descriptions, tg \in TargetChoices :
         /\ <<d, tg>> /= <<tObj.spec.description, tObj.spec.targets>>
         /\ tObj' = [tObj EXCEPT !.spec.description = d, !.spec.targets = tg,
                                 !.generation = tObj.generation + 1]
    /\ tTrace' = <<>> /\ tPath' = "none" /\ tResult' = Result(FALSE, FALSE, 0)
    /\ lastOp' = "UserUpdateTemplate"
    /\ UNCHANGED rVars
    /\ UNCHANGED <<cfg, fis, fisIssued, iam, ae, rbac, eVars, faults>>

\* The user deletes the object: the store sets the deletion timestamp, or
\* removes the object at once when it carries no finalizer.
UserDeleteTemplate ==
    /\ tObj.exists /\ ~tObj.deleting
    /\ tObj' = IF tObj.finalizer THEN [tObj EXCEPT !.deleting = TRUE]
               ELSE [tObj EXCEPT !.exists = FALSE]
    /\ tTrace' = <<>> /\ tPath' = "none" /\ tResult' = Result(FALSE, FALSE, 0)
    /\ lastOp' = "UserDeleteTemplate"
    /\ UNCHANGED rVars
    /\ UNCHANGED <<cfg, fis, fisIssued, iam, ae, rbac, eVars, faults>>

EmptyTemplateStatus ==
    [templateID |-> NoID, roleArn |-> "", phase |-> "", message |-> "",
     observedGeneration |-> 0]

InitTemplate ==
    /\ cfg \in ConfigChoices
    /\ \E tg \in TargetChoices, auto \in BOOLEAN :
         tObj = [exists |-> TRUE, deleting |-> FALSE, finalizer |-> FALSE,
                 generation |-> 1,
                 spec |-> [description |-> "d1", targets |-> tg, autoCreateRole |-> auto],
                 status |-> EmptyTemplateStatus]
    /\ fis = <<>>
    /\ fisIssued = 0
    /\ iam \in {NoRole, AdminRole}
    /\ ae = {}
    /\ rbac = [ns \in Namespaces |-> {}]
    /\ tTrace = <<>>
    /\ tPath = "none"
    /\ tResult = Result(FALSE, FALSE, 0)

EmptyExperimentStatus ==
    [templateID |-> NoID, experimentID |-> NoID, state |-> "", reason |-> "",
     startTime |-> NoTime, endTime |-> NoTime, lastScheduleTime |-> NoTime,
     nextScheduleTime |-> NoTime, active |-> 0]

\* No converter call has been made.
NoConversion == [fn |-> "none", in |-> <<>>, out |-> <<>>]

\* No Experiment object in the store.
NoExperimentObject ==
    /\ eObj = [exists |-> FALSE, deleting |-> FALSE, finalizer |-> FALSE, creation |-> 0,
               spec |-> [id |-> NoID, name |-> "", schedule |-> "", suspend |-> FALSE,
                         clientToken |-> NoToken,
                         successLimit |-> NoLimit, failedLimit |-> NoLimit],
               status |-> EmptyExperimentStatus]
    /\ runs = <<>>
    /\ now = 0
    /\ eTrace = <<>>
    /\ ePath = "none"
    /\ eResult = Result(FALSE, FALSE, 0)
    /\ notReadySeen = FALSE
    /\ eLog = <<>>

NoExperiment == NoExperimentObject /\ conv = NoConversion

\* The Reconciler holds the client it was constructed with and no
\* reconcile is in flight.
ReconcilerInjected ==
    /\ fisClient = InjectedClient
    /\ pc = [w \in Workers |-> [at |-> "idle", used |-> NilClient]]

InitT ==
    /\ InitTemplate /\ NoExperiment /\ faults = 0 /\ lastOp = "init"
    /\ ReconcilerInjected

NextT == TReconcile \/ UserUpdateTemplate \/ UserDeleteTemplate

SpecTemplate == InitT /\ [][NextT]_vars

\* ----------------------------------------------------------------------
\* cron (github.com/robfig/cron/v3): ParseStandard and Schedule.Next
\* ----------------------------------------------------------------------
ParseStandard(s) == s \in {EveryMinute, EveryTwoMinutes}

Period(s) == IF s = EveryMinute THEN TicksPerMinute ELSE 2 * TicksPerMinute

\* The earliest occurrence of the schedule strictly after t.
ScheduleNext(s, t) == ((t \div Period(s)) + 1) * Period(s)

\* ----------------------------------------------------------------------
\* Provider experiments (FISClient.StartExperiment / Get / Stop)
\* ----------------------------------------------------------------------
\* uuid.New(): a token no earlier call has used.
FreshToken(rs) == Cardinality(DOMAIN rs) + 1

\* `if experiment.Spec.ClientToken != "" {...} else {uuid}` of StartExperiment.
StartToken(e, rs) ==
    IF e.spec.clientToken /= NoToken THEN e.spec.clientToken ELSE FreshToken(rs)

\* The provider's answer to a StartExperiment call with the given token:
\* the run already started with that token if there is one (same), a new
\* run otherwise.
ProviderStart(rs, e, cycle, ok, at, token, same) ==
    IF ~ok \/ (same = {} /\ Cardinality(DOMAIN rs) + 1 > MaxRuns)
    THEN [err |-> TRUE, id |-> NoID, runs |-> rs,
          trace |-> <<Call("StartExperiment", FALSE, "", token)>>]
    ELSE IF same /= {}
    THEN [err |-> FALSE, id |-> CHOOSE k \in same : TRUE, runs |-> rs,
          trace |-> <<Call("StartExperiment", TRUE, "", token)>>]
    ELSE [err |-> FALSE, id |-> Cardinality(DOMAIN rs) + 1,
          runs |-> [k \in DOMAIN rs \cup {Cardinality(DOMAIN rs) + 1} |->
                       IF k \in DOMAIN rs THEN rs[k]
                       ELSE [token |-> token, templateID |-> e.status.templateID,
                             state |-> "initiating", cycle |-> cycle, endTime |-> NoTime,
                             startTime |-> at]],
          trace |-> <<Call("StartExperiment", TRUE, "", token)>>]

StartWithToken(rs, e, cycle, ok, at, token) ==
    ProviderStart(rs, e, cycle, ok, at, token, {k \in DOMAIN rs : rs[k].token = token})

\* FISClient.StartExperiment.  The provider returns the run already started
\* with the same client token instead of starting another one.  cycle is
\* the schedule occurrence the call is made for (0 for a one-shot); the
\* provider does not see it.  at is the provider's clock, the StartTime of
\* a new run.
StartExperiment(rs, e, cycle, ok, at) ==
    IF e.status.templateID = NoID
    THEN [err |-> TRUE, id |-> NoID, runs |-> rs, trace |-> <<>>]
    ELSE StartWithToken(rs, e, cycle, ok, at, StartToken(e, rs))

\* FISClient.StopExperiment: the provider moves a running run to stopping.
StopExperiment(rs, id, ok) ==
    IF ok /\ id \in DOMAIN rs /\ rs[id].state \in Running
    THEN [err |-> FALSE, runs |-> [rs EXCEPT ![id].state = "stopping"]]
    ELSE [err |-> TRUE, runs |-> rs]

\* ----------------------------------------------------------------------
\* Experiment reconciler (package experiment)
\* ----------------------------------------------------------------------
\* Faulty variant of HasFinalizer: the finalizer is taken to be present.
HasFinalizerAlways(e) == TRUE

\* `controllerutil.ContainsFinalizer(experiment, experimentFinalizer)`
HasFinalizer(e) == e.finalizer

\* Faulty variant of Suspended: the suspend flag is ignored.
SuspendedNever(e) == FALSE

\* `experiment.Spec.Suspend != nil && *experiment.Spec.Suspend`
Suspended(e) == e.spec.suspend

\* Faulty variant of NotStarted: a one-shot is started on every reconcile.
NotStartedAlways(e) == TRUE

\* `experiment.Status.ExperimentID == ""` in handleOneTimeExperiment.
NotStarted(e) == e.status.experimentID = NoID

\* Faulty variant of resolveTemplateID: the identifier of the named
\* ExperimentTemplate is returned without the check that it is set.
resolveTemplateIDNoReadyCheck(e, t, getOk) ==
    IF e.spec.id /= NoID THEN [id |-> e.spec.id, err |-> FALSE, notReady |-> FALSE]
    ELSE IF e.spec.name /= ""
    THEN IF ~getOk \/ ~t.exists THEN [id |-> NoID, err |-> TRUE, notReady |-> FALSE]
         ELSE [id |-> t.status.templateID, err |-> FALSE, notReady |-> FALSE]
    ELSE [id |-> NoID, err |-> TRUE, notReady |-> FALSE]

\* Faulty variant of resolveTemplateID: the name is looked up before the
\* identifier is considered.
resolveTemplateIDNameFirst(e, t, getOk) ==
    IF e.spec.name /= ""
    THEN IF ~getOk \/ ~t.exists THEN [id |-> NoID, err |-> TRUE, notReady |-> FALSE]
         ELSE IF t.status.templateID = NoID
         THEN [id |-> NoID, err |-> TRUE, notReady |-> TRUE]
         ELSE [id |-> t.status.templateID, err |-> FALSE, notReady |-> FALSE]
    ELSE IF e.spec.id /= NoID
    THEN [id |-> e.spec.id, err |-> FALSE, notReady |-> FALSE]
    ELSE [id |-> NoID, err |-> TRUE, notReady |-> FALSE]

\* resolveTemplateID: the identifier; NoID with err when it cannot be
\* resolved (notReady: the error is "does not have a template ID yet").
\* getOk is the outcome of reading the named ExperimentTemplate.
resolveTemplateID(e, t, getOk) ==
    IF e.spec.id /= NoID THEN [id |-> e.spec.id, err |-> FALSE, notReady |-> FALSE]
    ELSE IF e.spec.name /= ""
    THEN IF ~getOk \/ ~t.exists THEN [id |-> NoID, err |-> TRUE, notReady |-> FALSE]
         ELSE IF t.status.templateID = NoID
         THEN [id |-> NoID, err |-> TRUE, notReady |-> TRUE]
         ELSE [id |-> t.status.templateID, err |-> FALSE, notReady |-> FALSE]
    ELSE [id |-> NoID, err |-> TRUE, notReady |-> FALSE]

EWorld(e) == [status |-> e.status, runs |-> runs, trace |-> <<>>, err |-> FALSE,
              now |-> now, result |-> Result(FALSE, FALSE, 0), logged |-> <<>>]

\* r.Status().Update(ctx, experiment)
EStatusUpdate(W, newStatus, ok) ==
    [W EXCEPT !.status = IF ok THEN newStatus ELSE W.status,
              !.trace = W.trace \o <<Call("StatusUpdate", ok, "", 0)>>]

\* startExperiment after StartExperiment returned an error: record failed.
startFailed(st, W1, o) ==
    [w |-> [EStatusUpdate(W1, [st EXCEPT !.state = "failed", !.reason = "startErr"], o.stOk)
            EXCEPT !.err = TRUE, !.result = Result(TRUE, FALSE, 0)],
     st |-> [st EXCEPT !.state = "failed", !.reason = "startErr"]]

\* startExperiment after StartExperiment returned an identifier: st2 is the
\* status to persist.
startPersist(e, st2, W1, o) ==
    [w |-> [EStatusUpdate(W1, st2, o.stOk)
            EXCEPT !.err = ~o.stOk,
                   !.result = IF o.stOk /\ e.spec.schedule = ""
                              THEN Result(FALSE, FALSE, 10)
                              ELSE Result(~o.stOk, FALSE, 0)],
     st |-> st2]

\* StartExperiment returned sr; the provider call took o.d.
startWithRun(e, st, W0, o, sr) ==
    IF sr.err
    THEN startFailed(st, [W0 EXCEPT !.runs = sr.runs, !.trace = W0.trace \o sr.trace,
                                    !.now = W0.now + o.d], o)
    ELSE startPersist(e,
                      [st EXCEPT !.experimentID = sr.id, !.state = "initiating",
                                 !.reason = "initiating", !.startTime = W0.now + o.d,
                                 !.active = 1],
                      [W0 EXCEPT !.runs = sr.runs, !.trace = W0.trace \o sr.trace,
                                 !.now = W0.now + o.d],
                      o)

\* startExperiment.  st is the in-memory status of the object (it may carry
\* fields the caller has set and not yet persisted); the result is the state
\* it leaves (w) and the in-memory status (st).
startExperiment(e, st, W0, cycle, o) ==
    startWithRun(e, st, W0, o,
                 StartExperiment(W0.runs, [e EXCEPT !.status = st], cycle, o.callOk,
                                 W0.now + o.d))

\* Faulty variant of SyncRequeue: a completed run is polled like a running
\* one.
SyncRequeueAlways(state) ==
    IF state \in {"initiating", "pending", "running", "stopping", "completed"}
    THEN 10
    ELSE IF state \in {"stopped", "failed"} THEN 0 ELSE 30

\* Requeue delay syncExperimentState returns for a state.
SyncRequeue(state) ==
    IF state \in {"initiating", "pending", "running", "stopping"} THEN 10
    ELSE IF state \in {"completed", "stopped", "failed"} THEN 0
    ELSE 30

\* syncExperimentState after the status st2 is computed from the run.
syncPersist(st2, W1, o) ==
    [EStatusUpdate(W1, st2, o.stOk)
     EXCEPT !.err = ~o.stOk,
            !.result = IF o.stOk THEN Result(FALSE, FALSE, SyncRequeue(st2.state))
                       ELSE Result(TRUE, FALSE, 0)]

\* GetExperiment returned run.
syncWithRun(st, W0, o, run) ==
    syncPersist([st EXCEPT !.state = run.state, !.reason = run.state,
                           !.endTime = IF run.endTime /= NoTime THEN run.endTime
                                       ELSE st.endTime,
                           !.active = IF run.endTime /= NoTime THEN 0 ELSE 1],
                [W0 EXCEPT !.trace = W0.trace \o <<Call("GetExperiment", TRUE, "", 0)>>],
                o)

\* syncExperimentState
syncExperimentState(e, st, W0, o) ==
    IF ~o.callOk \/ st.experimentID \notin DOMAIN W0.runs
    THEN [W0 EXCEPT !.trace = W0.trace \o <<Call("GetExperiment", FALSE, "", 0)>>,
                    !.err = TRUE, !.result = Result(TRUE, FALSE, 30)]
    ELSE syncWithRun(st, W0, o, W0.runs[st.experimentID])

\* handleOneTimeExperiment
handleOneTimeExperiment(e, st, W0, o) ==
    IF NotStarted([e EXCEPT !.status = st])
    THEN startExperiment(e, st, W0, 0, o).w
    ELSE syncExperimentState(e, st, W0, o)

\* Faulty variant of MissedRun: the reference time is always the creation
\* time.
MissedRunFromCreation(e, st) == ScheduleNext(e.spec.schedule, e.creation)

\* `nextAfterCreation` or `nextAfterLast`: the occurrence after the last
\* schedule time, or after the creation time when there is none.
MissedRun(e, st) ==
    ScheduleNext(e.spec.schedule,
                 IF st.lastScheduleTime = NoTime THEN e.creation ELSE st.lastScheduleTime)

\* `nextScheduleTime` of handleScheduledExperiment at time nw.
NextScheduleTime(s, last, nw, missedRun) ==
    IF ~(missedRun > nw) THEN ScheduleNext(s, missedRun)
    ELSE IF last /= NoTime
    THEN IF ~(ScheduleNext(s, last) > nw) THEN ScheduleNext(s, nw) ELSE ScheduleNext(s, last)
    ELSE ScheduleNext(s, nw)

\* handleScheduledExperiment when it is not time yet.
scheduledNotDue(st, W0, o, next) ==
    IF st.nextScheduleTime = NoTime \/ st.nextScheduleTime /= next
    THEN [EStatusUpdate(W0, [st EXCEPT !.nextScheduleTime = next], o.stOk)
          EXCEPT !.err = ~o.stOk,
                 !.result = IF o.stOk THEN Result(FALSE, FALSE, next - W0.now)
                            ELSE Result(TRUE, FALSE, 0)]
    ELSE [W0 EXCEPT !.result = Result(FALSE, FALSE, next - W0.now)]

\* FISClient.ListExperimentsByTemplate: the summaries (ID, State, StartTime)
\* of the provider's runs of the template, in the provider's order.
RECURSIVE ListFrom(_, _, _)
ListFrom(rs, tid, k) ==
    IF k > Cardinality(DOMAIN rs) THEN <<>>
    ELSE (IF rs[k].templateID = tid
          THEN <<[id |-> k, state |-> rs[k].state, startTime |-> rs[k].startTime]>>
          ELSE <<>>)
         \o ListFrom(rs, tid, k + 1)

ListExperimentsByTemplate(rs, tid, ok) ==
    IF ok THEN [err |-> FALSE, experiments |-> ListFrom(rs, tid, 1)]
    ELSE [err |-> TRUE, experiments |-> <<>>]

\* `case "completed"` and `case "failed", "stopped"` of the partition.
IsSuccessful(x) == x.state = "completed"

IsFailed(x) == x.state \in {"failed", "stopped"}

\* sortByStartTimeDesc: the two nested loops; entries i and j are swapped
\* when `iTime == nil || (jTime != nil && jTime.After(*iTime))`.
ShouldSwap(a, b) ==
    a.startTime = NoTime \/ (b.startTime /= NoTime /\ b.startTime > a.startTime)

Swap(s, i, j) == [s EXCEPT ![i] = s[j], ![j] = s[i]]

RECURSIVE sortInner(_, _, _)
sortInner(s, i, j) ==
    IF j > Len(s) THEN s
    ELSE sortInner(IF ShouldSwap(s[i], s[j]) THEN Swap(s, i, j) ELSE s, i, j + 1)

RECURSIVE sortOuter(_, _)
sortOuter(s, i) ==
    IF i > Len(s) - 1 THEN s
    ELSE sortOuter(sortInner(s, i, i + 1), i + 1)

sortByStartTimeDesc(s) == sortOuter(s, 1)

\* The limit of the spec, or the default when it is nil.
HistoryLimit(l, default) == IF l = NoLimit THEN default ELSE l

\* Faulty variant of Excess: the retained entries are the ones reported.
ExcessRetained(s, limit) ==
    IF Len(s) > limit THEN SubSeq(s, 1, limit) ELSE <<>>

\* `toCleanup := sorted[limit:]` when `len(sorted) > limit`.
Excess(s, limit) ==
    IF Len(s) > limit THEN SubSeq(s, limit + 1, Len(s)) ELSE <<>>

\* cleanupExperimentHistory after ListExperimentsByTemplate returned ls: the
\* entries beyond the limits are logged, nothing else is done.
cleanupWithList(e, W, ls) ==
    IF ls.err
    THEN [W EXCEPT !.trace = W.trace \o <<Call("ListExperimentsByTemplate", FALSE, "", 0)>>]
    ELSE [W EXCEPT
             !.trace = W.trace \o <<Call("ListExperimentsByTemplate", TRUE, "", 0)>>,
             !.logged = Excess(sortByStartTimeDesc(SelectSeq(ls.experiments, IsSuccessful)),
                               HistoryLimit(e.spec.successLimit, DefaultSuccessLimit))
                        \o Excess(sortByStartTimeDesc(SelectSeq(ls.experiments, IsFailed)),
                                  HistoryLimit(e.spec.failedLimit, DefaultFailedLimit))]

\* cleanupExperimentHistory
cleanupExperimentHistory(e, W, listOk) ==
    IF e.spec.schedule = "" \/ W.status.templateID = NoID THEN W
    ELSE cleanupWithList(e, W,
                         ListExperimentsByTemplate(W.runs, W.status.templateID, listOk))

\* handleScheduledExperiment after the schedule times are persisted (W2):
\* cleanupExperimentHistory runs (its error is only logged), and the
\* reconcile is requeued for the next occurrence.
scheduledDone(e, W2, o, after) ==
    [cleanupExperimentHistory(e, W2, o.listOk) EXCEPT !.result = Result(FALSE, FALSE, after)]

\* handleScheduledExperiment after startExperiment returned sr (nw is the
\* time read at the start of the handler).
scheduledStarted(e, nw, o, next, sr) ==
    IF sr.w.err THEN sr.w
    ELSE IF ~o.schedOk
    THEN [EStatusUpdate(sr.w, sr.st, FALSE)
          EXCEPT !.err = TRUE, !.result = Result(TRUE, FALSE, 0)]
    ELSE scheduledDone(e,
                       EStatusUpdate(sr.w,
                                     [sr.st EXCEPT !.lastScheduleTime = sr.w.now,
                                                   !.nextScheduleTime = next],
                                     TRUE),
                       o, next - nw)

\* Faulty variant of scheduledAt: the run is started whether or not the
\* occurrence is due.
scheduledAtAlwaysDue(e, st, W0, o, missedRun, next) ==
    scheduledStarted(e, W0.now, o, next,
                     startExperiment(e, [st EXCEPT !.nextScheduleTime = next], W0,
                                     missedRun, o))

\* Faulty variant of scheduledAt: when the occurrence after the due one has
\* passed as well, a run is started for each of the two.
scheduledAtReplaying(e, st, W0, o, missedRun, next) ==
    IF missedRun > W0.now
    THEN scheduledNotDue(st, W0, o, next)
    ELSE IF next > W0.now
    THEN scheduledStarted(e, W0.now, o, next,
                          startExperiment(e, [st EXCEPT !.nextScheduleTime = next], W0,
                                          missedRun, o))
    ELSE scheduledStarted(e, W0.now, o, next,
                          startExperiment(e, [st EXCEPT !.nextScheduleTime = next],
                                          startExperiment(e, st, W0, missedRun, o).w,
                                          next, o))

\* handleScheduledExperiment for a schedule that parses; missedRun is the
\* occurrence to run and next the one after it.
scheduledAt(e, st, W0, o, missedRun, next) ==
    IF missedRun > W0.now
    THEN scheduledNotDue(st, W0, o, next)
    ELSE scheduledStarted(e, W0.now, o, next,
                          startExperiment(e, [st EXCEPT !.nextScheduleTime = next], W0,
                                          missedRun, o))

scheduledFrom(e, st, W0, o, missedRun) ==
    scheduledAt(e, st, W0, o, missedRun,
                NextScheduleTime(e.spec.schedule, st.lastScheduleTime, W0.now, missedRun))

\* handleScheduledExperiment.  Result.after is in clock ticks here.
handleScheduledExperiment(e, st, W0, o) ==
    IF ~ParseStandard(e.spec.schedule)
    THEN [EStatusUpdate(W0, [st EXCEPT !.state = "failed", !.reason = "badSchedule"], o.stOk)
          EXCEPT !.err = TRUE, !.result = Result(TRUE, FALSE, 0)]
    ELSE scheduledFrom(e, st, W0, o, MissedRun(e, st))

\* handleDeletion of the Experiment reconciler, after the run is stopped if
\* it had to be.
experimentDeletionDone(W1, o) ==
    [W1 EXCEPT !.trace = W1.trace \o <<Call("UpdateRemoveFinalizer", o.updateOk, "", 0)>>,
               !.err = ~o.updateOk, !.result = Result(~o.updateOk, FALSE, 0)]

\* Faulty variant of experimentStopped: a failed stop ends the reconcile
\* with the error and the finalizer is kept.
experimentStoppedFatal(W0, o, sp) ==
    IF sp.err
    THEN [W0 EXCEPT !.trace = <<Call("StopExperiment", FALSE, "", 0)>>,
                    !.err = TRUE, !.result = Result(TRUE, FALSE, 0)]
    ELSE experimentDeletionDone([W0 EXCEPT !.runs = sp.runs,
                                           !.trace = <<Call("StopExperiment", TRUE, "", 0)>>],
                                o)

\* StopExperiment returned sp.
experimentStopped(W0, o, sp) ==
    experimentDeletionDone([W0 EXCEPT !.runs = sp.runs,
                                      !.trace = <<Call("StopExperiment", ~sp.err, "", 0)>>], o)

\* handleDeletion of the Experiment reconciler.
handleExperimentDeletion(e, W0, o) ==
    IF e.status.experimentID /= NoID /\ e.status.state \in Running
    THEN experimentStopped(W0, o, StopExperiment(W0.runs, e.status.experimentID, o.callOk))
    ELSE experimentDeletionDone(W0, o)

\* Faulty variant of reconcileDispatch: once a run is recorded, a scheduled
\* Experiment is polled like a one-shot.
reconcileDispatchPolling(e, st1, W1, o) ==
    IF e.spec.schedule /= "" /\ st1.experimentID = NoID
    THEN [w |-> handleScheduledExperiment(e, st1, W1, o), path |-> "scheduled"]
    ELSE [w |-> handleOneTimeExperiment(e, st1, W1, o), path |-> "oneshot"]

\* Reconcile after the template identifier is stored in the status (st1, W1).
reconcileDispatch(e, st1, W1, o) ==
    IF e.spec.schedule /= ""
    THEN [w |-> handleScheduledExperiment(e, st1, W1, o), path |-> "scheduled"]
    ELSE [w |-> handleOneTimeExperiment(e, st1, W1, o), path |-> "oneshot"]

\* resolveTemplateID returned rs.
reconcileResolved(e, W0, o, rs) ==
    IF rs.err
    THEN [w |-> [EStatusUpdate(W0, [e.status EXCEPT !.state = "failed",
                                                    !.reason = "resolveErr"], o.stOk)
                 EXCEPT !.err = TRUE, !.result = Result(TRUE, FALSE, 0)],
          path |-> IF rs.notReady THEN "notReady" ELSE "resolveErr"]
    ELSE IF e.status.templateID = rs.id
    THEN reconcileDispatch(e, e.status, W0, o)
    ELSE IF ~o.tidOk
    THEN [w |-> [EStatusUpdate(W0, [e.status EXCEPT !.templateID = rs.id], FALSE)
                 EXCEPT !.err = TRUE, !.result = Result(TRUE, FALSE, 0)],
          path |-> "resolveErr"]
    ELSE reconcileDispatch(e, [e.status EXCEPT !.templateID = rs.id],
                           EStatusUpdate(W0, [e.status EXCEPT !.templateID = rs.id], TRUE), o)

\* The part of Reconcile after the finalizer and suspend checks.
reconcileActive(e, t, W0, o) ==
    reconcileResolved(e, W0, o, resolveTemplateID(e, t, o.getOk))

\* Outcomes of the external calls of one experiment reconcile.
EOutcomes(e) ==
    LET active == ~e.deleting /\ e.finalizer /\ ~e.spec.suspend
    IN [getOk : IF active /\ e.spec.name /= "" THEN BOOLEAN ELSE {TRUE},
        tidOk : IF active THEN BOOLEAN ELSE {TRUE},
        callOk : IF active \/ e.deleting THEN BOOLEAN ELSE {TRUE},
        stOk : IF active THEN BOOLEAN ELSE {TRUE},
        schedOk : IF active /\ e.spec.schedule /= "" THEN BOOLEAN ELSE {TRUE},
        listOk : IF active /\ e.spec.schedule /= "" THEN BOOLEAN ELSE {TRUE},
        updateOk : IF active THEN {TRUE} ELSE BOOLEAN,
        d : IF active /\ e.spec.schedule /= "" /\ now < MaxTime THEN 0..1 ELSE {0}]

EFaults(o) ==
    B2N(~o.getOk) + B2N(~o.tidOk) + B2N(~o.callOk) + B2N(~o.stOk) + B2N(~o.schedOk)
    + B2N(~o.listOk) + B2N(~o.updateOk)

ECommit(W, e2, path) ==
    /\ eObj' = [e2 EXCEPT !.status = W.status]
    /\ runs' = W.runs
    /\ now' = W.now
    /\ eTrace' = W.trace
    /\ ePath' = path
    /\ eResult' = W.result
    /\ notReadySeen' = (notReadySeen \/ path = "notReady")
    /\ eLog' = W.logged
    /\ UNCHANGED conv

\* Reconcile after the handlers returned r (the state left and the path).
EFinish(r) == ECommit(r.w, eObj, r.path)

\* Reconciler.Reconcile of package experiment, for an object that the store
\* returns.
EReconcile ==
    /\ eObj.exists
    /\ lastOp' = "EReconcile"
    /\ UNCHANGED rVars
    /\ UNCHANGED tVars
    /\ faults' \in faults..MaxExperimentFaults
    /\ \E o \in {x \in EOutcomes(eObj) : EFaults(x) = faults' - faults} :
         IF eObj.deleting
         THEN ECommit(handleExperimentDeletion(eObj, EWorld(eObj), o),
                      IF o.updateOk
                      THEN [eObj EXCEPT !.finalizer = FALSE, !.exists = FALSE]
                      ELSE eObj, "delete")
         ELSE IF ~HasFinalizer(eObj)
         THEN ECommit([EWorld(eObj) EXCEPT
                          !.trace = <<Call("UpdateAddFinalizer", o.updateOk, "", 0)>>,
                          !.err = ~o.updateOk,
                          !.result = Result(~o.updateOk, o.updateOk, 0)],
                      [eObj EXCEPT !.finalizer = o.updateOk], "finalizer")
         ELSE IF Suspended(eObj)
         THEN ECommit(EWorld(eObj), eObj, "suspended")
         ELSE EFinish(reconcileActive(eObj, tObj, EWorld(eObj), o))

ResetExperimentTrace ==
    /\ eTrace' = <<>>
    /\ ePath' = "none"
    /\ eResult' = Result(FALSE, FALSE, 0)
    /\ eLog' = <<>>
    /\ UNCHANGED <<notReadySeen, conv>>

\* Time passes.
Tick ==
    /\ now < MaxTime
    /\ now' = now + 1
    /\ ResetExperimentTrace
    /\ lastOp' = "Tick"
    /\ UNCHANGED rVars
    /\ UNCHANGED <<tVars, eObj, runs, faults>>

\* The provider moves the run the object records through its life cycle
\* (GetExperiment is only ever called for status.experimentID, so the
\* progress of other runs is not observed).  EndTime is set when the run
\* reaches a terminal state; its value is abstracted to EndStamp.
ProviderStates(state) ==
    IF state = "initiating" THEN {"running"}
    ELSE IF state = "running" THEN {"completed", "failed"}
    ELSE IF state = "stopping" THEN {"stopped"}
    ELSE {}

ProviderAdvance ==
    /\ \E id \in DOMAIN runs \cap {eObj.status.experimentID} :
       \E nxt \in ProviderStates(runs[id].state) :
         runs' = [runs EXCEPT ![id].state = nxt,
                              ![id].endTime = IF nxt \in {"completed", "failed", "stopped"}
                                              THEN EndStamp ELSE NoTime]
    /\ ResetExperimentTrace
    /\ lastOp' = "ProviderAdvance"
    /\ UNCHANGED rVars
    /\ UNCHANGED <<tVars, eObj, now, faults>>

\* The user sets or clears spec.suspend.
UserSuspend ==
    /\ eObj.exists /\ ~eObj.deleting
    /\ eObj' = [eObj EXCEPT !.spec.suspend = ~eObj.spec.suspend]
    /\ ResetExperimentTrace
    /\ lastOp' = "UserSuspend"
    /\ UNCHANGED rVars
    /\ UNCHANGED <<tVars, runs, now, faults>>

\* The user deletes the Experiment.
UserDeleteExperiment ==
    /\ eObj.exists /\ ~eObj.deleting
    /\ eObj' = IF eObj.finalizer THEN [eObj EXCEPT !.deleting = TRUE]
               ELSE [eObj EXCEPT !.exists = FALSE]
    /\ ResetExperimentTrace
    /\ lastOp' = "UserDeleteExperiment"
    /\ UNCHANGED rVars
    /\ UNCHANGED <<tVars, runs, now, faults>>

\* The template the Experiment names, before its first reconcile; there is
\* no ExperimentTemplate object when the Experiment names none.
InitTemplateFixed(named) ==
    /\ cfg \in {c \in ConfigChoices : c.clusterARN /= "" /\ c.annRoleArn = ""}
    /\ tObj = [exists |-> named, deleting |-> FALSE, finalizer |-> FALSE,
               generation |-> 1,
               spec |-> [description |-> "d1", targets |-> {"ns1"},
                         autoCreateRole |-> FALSE],
               status |-> EmptyTemplateStatus]
    /\ fis = <<>>
    /\ fisIssued = 0
    /\ iam = NoRole
    /\ ae = {}
    /\ rbac = [ns \in Namespaces |-> {}]
    /\ tTrace = <<>>
    /\ tPath = "none"
    /\ tResult = Result(FALSE, FALSE, 0)

TemplateRefs == {<<ExternalTemplateID, "">>, <<NoID, "tpl">>, <<NoID, "">>}

InitExperiment ==
    /\ now \in 0..1
    /\ \E ref \in TemplateRefs, sch \in Schedules, sus \in {FALSE},
          tok \in {NoToken, UserToken} :
         eObj = [exists |-> TRUE, deleting |-> FALSE, finalizer |-> FALSE,
                 creation |-> now,
                 spec |-> [id |-> ref[1], name |-> ref[2], schedule |-> sch,
                           suspend |-> sus, clientToken |-> tok,
                           successLimit |-> NoLimit, failedLimit |-> NoLimit],
                 status |-> EmptyExperimentStatus]
    /\ runs = <<>>
    /\ eTrace = <<>>
    /\ ePath = "none"
    /\ eResult = Result(FALSE, FALSE, 0)
    /\ notReadySeen = FALSE
    /\ eLog = <<>>
    /\ conv = NoConversion

InitE ==
    /\ InitExperiment
    /\ InitTemplateFixed(eObj.spec.id = NoID /\ eObj.spec.name /= "")
    /\ faults = 0
    /\ lastOp = "init"
    /\ ReconcilerInjected

NextE == EReconcile \/ TReconcileNoFault \/ Tick \/ ProviderAdvance \/ UserSuspend
         \/ UserDeleteExperiment

SpecExperiment == InitE /\ [][NextE]_vars

\* ----------------------------------------------------------------------
\* cleanupExperimentHistory on its own, over the histories a provider can hold
\* ----------------------------------------------------------------------
\* A provider run as ListExperimentsByTemplate may find it: of the
\* Experiment's template or of another one, in any state, with or without a
\* StartTime.
RunChoices ==
    {[token |-> UserToken, templateID |-> tid, state |-> st, cycle |-> 0,
      endTime |-> IF st = "running" THEN NoTime ELSE EndStamp, startTime |-> at] :
        tid \in {ExternalTemplateID, OtherTemplateID},
        st \in {"completed", "failed", "stopped", "running"},
        at \in {NoTime, 0, 1}}

HistoryChoices == UNION {[1..n -> RunChoices] : n \in 0..MaxHistory}

LimitChoices == {NoLimit, 0, 1}

\* A scheduled Experiment that has its finalizer and its template
\* identifier, with the provider holding any history.
InitHistory ==
    /\ now = 1
    /\ \E sl \in LimitChoices, fl \in LimitChoices :
         eObj = [exists |-> TRUE, deleting |-> FALSE, finalizer |-> TRUE,
                 creation |-> 0,
                 spec |-> [id |-> ExternalTemplateID, name |-> "",
                           schedule |-> EveryMinute, suspend |-> FALSE,
                           clientToken |-> NoToken,
                           successLimit |-> sl, failedLimit |-> fl],
                 status |-> [EmptyExperimentStatus EXCEPT !.templateID = ExternalTemplateID]]
    /\ runs \in HistoryChoices
    /\ eTrace = <<>>
    /\ ePath = "none"
    /\ eResult = Result(FALSE, FALSE, 0)
    /\ notReadySeen = FALSE
    /\ eLog = <<>>
    /\ conv = NoConversion

\* One call of cleanupExperimentHistory.
CleanupHistory ==
    /\ eObj.exists
    /\ \E listOk \in BOOLEAN :
         ECommit(cleanupExperimentHistory(eObj, EWorld(eObj), listOk), eObj, "history")
    /\ lastOp' = "CleanupHistory"
    /\ UNCHANGED rVars
    /\ UNCHANGED <<tVars, faults>>

InitH ==
    /\ InitHistory
    /\ InitTemplateFixed(FALSE)
    /\ faults = 0
    /\ lastOp = "init"
    /\ ReconcilerInjected

NextH == CleanupHistory

SpecHistory == InitH /\ [][NextH]_vars

\* ----------------------------------------------------------------------
\* Resource converter (internal/aws/fis_converter.go, fis_types.go).  A
\* string is a sequence of one-character strings.
\* ----------------------------------------------------------------------
ScopeChars == {"A", "L", "a", "3", "5", "0", "%", " "}

DurationChars == {"5", "m", "M", "P", "T", "t"}

StringsOver(chars, maxLen) == UNION {[1..n -> chars] : n \in 0..maxLen}

\* strings.ToUpper on the characters of the model
UpperChar(c) ==
    IF c = "a" THEN "A" ELSE IF c = "m" THEN "M" ELSE IF c = "t" THEN "T" ELSE c

ToUpper(str) == [i \in 1..Len(str) |-> UpperChar(str[i])]

\* strings.TrimSpace
RECURSIVE TrimLeft(_)
TrimLeft(str) ==
    IF str /= <<>> /\ Head(str) = " " THEN TrimLeft(Tail(str)) ELSE str

RECURSIVE TrimRight(_)
TrimRight(str) ==
    IF str /= <<>> /\ str[Len(str)] = " "
    THEN TrimRight(SubSeq(str, 1, Len(str) - 1)) ELSE str

TrimSpace(str) == TrimRight(TrimLeft(str))

\* strings.HasSuffix(s, "%") and strings.TrimSuffix(s, "%")
HasPercentSuffix(str) == str /= <<>> /\ str[Len(str)] = "%"

TrimPercentSuffix(str) ==
    IF HasPercentSuffix(str) THEN SubSeq(str, 1, Len(str) - 1) ELSE str

\* strings.HasPrefix(s, "PT")
HasPTPrefix(str) == Len(str) >= 2 /\ str[1] = "P" /\ str[2] = "T"

All == <<"A", "L", "L">>

\* fmt.Sprintf("COUNT(%s)", x) and fmt.Sprintf("PERCENT(%s)", x)
CountOf(x) == <<"C", "O", "U", "N", "T", "(">> \o x \o <<")">>

PercentOf(x) == <<"P", "E", "R", "C", "E", "N", "T", "(">> \o x \o <<")">>

\* parseScope after `scope = strings.TrimSpace(scope)`
parseTrimmed(scope) ==
    IF scope = <<>> \/ ToUpper(scope) = All THEN All
    ELSE IF HasPercentSuffix(scope) THEN PercentOf(TrimSpace(TrimPercentSuffix(scope)))
    ELSE CountOf(TrimSpace(scope))

parseScope(scope) == parseTrimmed(TrimSpace(scope))

\* Faulty variant of convertDuration: a value in converted form is
\* converted again.
convertDurationAlways(duration) == <<"P", "T">> \o ToUpper(duration)

\* FISClient.convertDuration
convertDuration(duration) ==
    IF HasPTPrefix(duration) THEN duration
    ELSE <<"P", "T">> \o ToUpper(duration)

\* The state of the reconcilers while the converter is exercised: no call
\* is made on it.
ConverterFrame ==
    UNCHANGED <<tVars, eObj, runs, now, eTrace, ePath, eResult, notReadySeen, eLog, faults>>

\* parseScope(conv.in)
ParseScope ==
    /\ conv.fn = "none" /\ conv.in \in StringsOver(ScopeChars, MaxScopeLen)
    /\ conv' = [fn |-> "parseScope", in |-> conv.in, out |-> parseScope(conv.in)]
    /\ lastOp' = "ParseScope"
    /\ UNCHANGED rVars
    /\ ConverterFrame

\* convertDuration(conv.in)
ConvertDuration ==
    /\ conv.fn = "none" /\ conv.in \in StringsOver(DurationChars, MaxDurationLen)
    /\ conv' = [fn |-> "convertDuration", in |-> conv.in, out |-> convertDuration(conv.in)]
    /\ lastOp' = "ConvertDuration"
    /\ UNCHANGED rVars
    /\ ConverterFrame

\* convertDuration applied to the value convertDuration returned
ConvertDurationAgain ==
    /\ conv.fn = "convertDuration"
    /\ conv' = [fn |-> "convertDurationAgain", in |-> conv.out,
                out |-> convertDuration(conv.out)]
    /\ lastOp' = "ConvertDurationAgain"
    /\ UNCHANGED rVars
    /\ ConverterFrame

InitC ==
    /\ InitTemplateFixed(FALSE)
    /\ NoExperimentObject
    /\ conv \in [fn : {"none"},
                 in : StringsOver(ScopeChars, MaxScopeLen)
                      \cup StringsOver(DurationChars, MaxDurationLen),
                 out : {<<>>}]
    /\ faults = 0
    /\ lastOp = "init"
    /\ ReconcilerInjected

NextC == ParseScope \/ ConvertDuration \/ ConvertDurationAgain

SpecConvert == InitC /\ [][NextC]_vars

\* ----------------------------------------------------------------------
\* Both kinds from creation to deletion
\* ----------------------------------------------------------------------
\* An ExperimentTemplate and a one-shot Experiment, each reconciled with
\* failures and deleted by the user at any moment.
InitL ==
    /\ InitExperiment
    /\ eObj.spec.schedule = "" /\ eObj.spec.clientToken = NoToken /\ now = 0
    /\ InitTemplateFixed(TRUE)
    /\ faults = 0
    /\ lastOp = "init"
    /\ ReconcilerInjected

NextL == TReconcile \/ UserDeleteTemplate \/ EReconcile \/ ProviderAdvance
         \/ UserDeleteExperiment

SpecLifecycle == InitL /\ [][NextL]_vars

\* ----------------------------------------------------------------------
\* The access-triple helpers on their own, from any content of a namespace
\* ----------------------------------------------------------------------
\* A call of helper op for namespace ns returned r; tPath tells whether the
\* call repeats the one before it.
TripleReturn(op, ns, r) ==
    /\ rbac' = [rbac EXCEPT ![ns] = r.objs]
    /\ tTrace' = <<Call(op, ~r.err, ns, 0)>>
    /\ tPath' = IF tTrace /= <<>> /\ tTrace[1] = Call(op, TRUE, ns, 0)
                THEN "repeat" ELSE "single"
    /\ tResult' = Result(r.err, FALSE, 0)
    /\ UNCHANGED <<cfg, tObj, fis, fisIssued, iam, ae, eVars, faults>>

\* utils.SetupExperimentTemplateRBAC(ctx, r.Client, ns, template.Name)
SetupTriple ==
    /\ \E ns \in Namespaces, stage \in Stages :
         TripleReturn("SetupRBAC", ns, SetupExperimentTemplateRBAC(rbac[ns], stage))
    /\ lastOp' = "SetupTriple"
    /\ UNCHANGED rVars

\* utils.DeleteExperimentTemplateRBAC(ctx, r.Client, ns, template.Name)
DeleteTriple ==
    /\ \E ns \in Namespaces, stage \in Stages :
         TripleReturn("DeleteRBAC", ns, DeleteExperimentTemplateRBAC(rbac[ns], stage))
    /\ lastOp' = "DeleteTriple"
    /\ UNCHANGED rVars

InitR ==
    /\ cfg \in {c \in ConfigChoices : c.clusterARN /= "" /\ c.annRoleArn = ""}
    /\ tObj = [exists |-> TRUE, deleting |-> FALSE, finalizer |-> TRUE,
               generation |-> 1,
               spec |-> [description |-> "d1", targets |-> Namespaces,
                         autoCreateRole |-> FALSE],
               status |-> EmptyTemplateStatus]
    /\ fis = <<>>
    /\ fisIssued = 0
    /\ iam = NoRole
    /\ ae = {}
    /\ rbac \in [Namespaces -> SUBSET Triple]
    /\ tTrace = <<>>
    /\ tPath = "none"
    /\ tResult = Result(FALSE, FALSE, 0)
    /\ NoExperiment
    /\ faults = 0
    /\ lastOp = "init"
    /\ ReconcilerInjected

NextR == SetupTriple \/ DeleteTriple

SpecTriples == InitR /\ [][NextR]_vars

\* ----------------------------------------------------------------------
\* Template references of every form
\* ----------------------------------------------------------------------
\* spec.experimentTemplate with the identifier, the name, both or neither.
AllTemplateRefs == TemplateRefs \cup {<<ExternalTemplateID, "tpl">>}

\* A one-shot Experiment with any template reference and the named
\* ExperimentTemplate before its first reconcile.
InitV ==
    /\ now = 0
    /\ \E ref \in AllTemplateRefs :
         eObj = [exists |-> TRUE, deleting |-> FALSE, finalizer |-> FALSE,
                 creation |-> now,
                 spec |-> [id |-> ref[1], name |-> ref[2], schedule |-> "",
                           suspend |-> FALSE, clientToken |-> NoToken,
                           successLimit |-> NoLimit, failedLimit |-> NoLimit],
                 status |-> EmptyExperimentStatus]
    /\ runs = <<>>
    /\ eTrace = <<>>
    /\ ePath = "none"
    /\ eResult = Result(FALSE, FALSE, 0)
    /\ notReadySeen = FALSE
    /\ eLog = <<>>
    /\ conv = NoConversion
    /\ InitTemplateFixed(eObj.spec.name /= "")
    /\ faults = 0
    /\ lastOp = "init"
    /\ ReconcilerInjected

NextV == EReconcile \/ TReconcileNoFault \/ ProviderAdvance \/ UserSuspend

SpecResolve == InitV /\ [][NextV]_vars

\* ----------------------------------------------------------------------
\* Scheduled Experiments over the passing of time
\* ----------------------------------------------------------------------
\* The user replaces spec.schedule by another expression.
UserEditSchedule ==
    /\ eObj.exists /\ ~eObj.deleting
    /\ \E sch \in Schedules \ {"", eObj.spec.schedule} :
         eObj' = [eObj EXCEPT !.spec.schedule = sch]
    /\ ResetExperimentTrace
    /\ lastOp' = "UserEditSchedule"
    /\ UNCHANGED rVars
    /\ UNCHANGED <<tVars, runs, now, faults>>

\* An Experiment with a schedule (one that parses or not) that refers to
\* its provider template by identifier, before its first reconcile.
InitS ==
    /\ InitExperiment
    /\ eObj.spec.schedule /= "" /\ eObj.spec.id = ExternalTemplateID
    /\ eObj.spec.clientToken = NoToken
    /\ InitTemplateFixed(FALSE)
    /\ faults = 0
    /\ lastOp = "init"
    /\ ReconcilerInjected

NextS == EReconcile \/ Tick \/ ProviderAdvance \/ UserEditSchedule

SpecSchedule == InitS /\ [][NextS]_vars

\* ----------------------------------------------------------------------
\* The FISClient field of the ExperimentTemplate Reconciler under
\* reconciles of different keys running on several workers
\* ----------------------------------------------------------------------
\* The objects the workers reconcile are left out: only the accesses to the
\* field are followed.
ClientFrame == UNCHANGED <<tVars, eVars, faults>>

\* A worker picks up a key and fetches the object.
ReconcileBegin ==
    /\ \E w \in Workers :
         /\ pc[w].at = "idle"
         /\ pc' = [pc EXCEPT ![w].at = "check"]
    /\ UNCHANGED fisClient
    /\ lastOp' = "ReconcileBegin"
    /\ ClientFrame

\* `if r.FISClient == nil`
CheckFISClient ==
    /\ \E w \in Workers :
         /\ pc[w].at = "check"
         /\ pc' = [pc EXCEPT ![w].at = IF fisClient = NilClient THEN "construct"
                                       ELSE "use"]
    /\ UNCHANGED fisClient
    /\ lastOp' = "CheckFISClient"
    /\ ClientFrame

\* awsfis.NewFISClient: the reconcile returns the error if it fails.
NewFISClient ==
    /\ \E w \in Workers, ok \in BOOLEAN :
         /\ pc[w].at = "construct"
         /\ pc' = [pc EXCEPT ![w].at = IF ok THEN "assign" ELSE "idle"]
    /\ UNCHANGED fisClient
    /\ lastOp' = "NewFISClient"
    /\ ClientFrame

\* `r.FISClient = fisClient`
AssignFISClient ==
    /\ \E w \in Workers :
         /\ pc[w].at = "assign"
         /\ fisClient' = w
         /\ pc' = [pc EXCEPT ![w].at = "use"]
    /\ lastOp' = "AssignFISClient"
    /\ ClientFrame

\* The provider calls of the rest of the reconcile, each through
\* r.FISClient; the reconcile ends.
UseFISClient ==
    /\ \E w \in Workers :
         /\ pc[w].at = "use"
         /\ pc' = [pc EXCEPT ![w] = [at |-> "idle", used |-> fisClient]]
    /\ UNCHANGED fisClient
    /\ lastOp' = "UseFISClient"
    /\ ClientFrame

\* The Reconciler when the manager starts its workers: the field holds the
\* client it was constructed with, or nil.
InitW ==
    /\ InitTemplateFixed(FALSE)
    /\ NoExperiment
    /\ faults = 0
    /\ lastOp = "init"
    /\ fisClient \in {NilClient, InjectedClient}
    /\ pc = [w \in Workers |-> [at |-> "idle", used |-> NilClient]]

NextW == ReconcileBegin \/ CheckFISClient \/ NewFISClient \/ AssignFISClient
         \/ UseFISClient

SpecClients == InitW /\ [][NextW]_vars

\* ----------------------------------------------------------------------
\* getRequiredParameters on its own
\* ----------------------------------------------------------------------
\* Every combination of set and unset sources.
ParameterConfigs ==
    [envRoleArn : {"", "arn:env"}, annRoleArn : {"", "arn:ann"},
     envCluster : {"", "c-env"}, annCluster : {"", "c-ann"},
     clusterARN : {"", "arn:cluster"}, eks : {TRUE}]

StatusRoleChoices == {"", "arn:status"}

\* r.getRequiredParameters(ctx, template): conv.out holds the two strings
\* it returns, tResult its error, tTrace and iam what EnsureIAMRole did.
GetRequiredParametersReturn(p) ==
    /\ conv' = [fn |-> "getRequiredParameters", in |-> <<>>,
                out |-> <<p.roleArn, p.clusterIdentifier>>]
    /\ iam' = p.iam
    /\ tTrace' = p.trace
    /\ tPath' = "parameters"
    /\ tResult' = Result(p.err, FALSE, 0)

GetRequiredParameters ==
    /\ conv.fn = "none"
    /\ \E out \in RoleOutcomes :
         GetRequiredParametersReturn(getRequiredParameters(tObj, cfg, iam, out))
    /\ lastOp' = "GetRequiredParameters"
    /\ UNCHANGED rVars
    /\ UNCHANGED <<cfg, tObj, fis, fisIssued, ae, rbac, eObj, runs, now, eTrace,
                   ePath, eResult, notReadySeen, eLog, faults>>

InitP ==
    /\ cfg \in ParameterConfigs
    /\ \E sr \in StatusRoleChoices :
         tObj = [exists |-> TRUE, deleting |-> FALSE, finalizer |-> TRUE,
                 generation |-> 1,
                 spec |-> [description |-> "d1", targets |-> <<"ns1">>,
                           autoCreateRole |-> FALSE],
                 status |-> [EmptyTemplateStatus EXCEPT !.roleArn = sr]]
    /\ fis = <<>>
    /\ fisIssued = 0
    /\ iam \in {NoRole, AdminRole}
    /\ ae = {}
    /\ rbac = [ns \in Namespaces |-> {}]
    /\ tTrace = <<>>
    /\ tPath = "none"
    /\ tResult = Result(FALSE, FALSE, 0)
    /\ NoExperiment
    /\ faults = 0
    /\ lastOp = "init"
    /\ ReconcilerInjected

NextP == GetRequiredParameters

SpecParameters == InitP /\ [][NextP]_vars

\* ======================================================================
\* Properties
\* ======================================================================
CleanupCallNames ==
    {"DeleteExperimentTemplate", "DeleteAccessEntry", "DeleteIAMRole", "DeleteRBAC"}

IsCleanupCall(c) == c \in CleanupCallNames

CleanupCalls(tr) == SelectSeq(CallNames(tr), IsCleanupCall)

\* The cleanup steps that apply to the object, in the order of the delete path.
ExpectedCleanup(t, c) ==
    (IF t.status.templateID /= NoID THEN <<"DeleteExperimentTemplate">> ELSE <<>>)
    \o (IF c.eks /\ t.status.roleArn /= "" THEN <<"DeleteAccessEntry">> ELSE <<>>)
    \o (IF t.status.roleArn /= "" THEN <<"DeleteIAMRole">> ELSE <<>>)
    \o [i \in 1..Cardinality(getTargetNamespaces(t)) |-> "DeleteRBAC"]

DeleteReconciled == lastOp = "TReconcile" /\ tPath = "delete"

\* C1: a delete-path reconcile attempts all cleanup steps that apply, in the
\* order provider template, access entry, role, access triples, also when the
\* provider-template delete fails.
C1_AllCleanupStepsAttempted ==
    DeleteReconciled => CleanupCalls(tTrace) = ExpectedCleanup(tObj, cfg)

\* C2: in a delete-path reconcile no cleanup-step failure blocks finalizer
\* removal: unless the finalizer write itself fails, the finalizer is gone
\* after the reconcile.
C2_CleanupNeverBlocksFinalizer ==
    (DeleteReconciled /\ Call("UpdateRemoveFinalizer", FALSE, "", 0) \notin
                            {tTrace[i] : i \in 1..Len(tTrace)})
    => ~tObj.finalizer

\* An object that is not being deleted, has the finalizer, has a template
\* identifier and whose generation is the observed one.
UnchangedTemplate(t) ==
    /\ t.exists /\ ~t.deleting /\ t.finalizer
    /\ t.status.templateID /= NoID
    /\ t.generation = t.status.observedGeneration

\* C3: a reconcile of an unchanged ExperimentTemplate issues no call to the
\* provider, the role service, the access-entry service or the access
\* triples, and leaves status and every external resource unchanged.
C3_UnchangedReconcileIsNoop ==
    [][(UnchangedTemplate(tObj) /\ lastOp' = "TReconcile")
       => (/\ tTrace' = <<>>
           /\ tObj'.status = tObj.status
           /\ UNCHANGED <<fis, fisIssued, iam, ae, rbac>>)]_vars

C3_Witness ==
    /\ lastOp = "TReconcile" /\ tPath = "noop"
    /\ UnchangedTemplate(tObj)
    /\ tObj.generation > 1

\* C4: status.templateID is non-empty if and only if a provider template
\* created for the object exists.
C4_TemplateIDIffProviderTemplate ==
    tObj.exists => ((tObj.status.templateID /= NoID) <=> (DOMAIN fis /= {}))

\* The provider template matches the spec.
Matches(ft, spec) ==
    /\ ft.description = spec.description
    /\ ft.targets = convertTargets(spec.targets)

ProviderTemplateExists == tObj.exists /\ tObj.status.templateID \in DOMAIN fis

\* C5 as stated: while the provider template exists, observedGeneration =
\* generation if and only if the provider template matches the current spec.
C5_ObservedGenerationIffMatches ==
    ProviderTemplateExists
    => ((tObj.status.observedGeneration = tObj.generation)
        <=> Matches(fis[tObj.status.templateID], tObj.spec))

\* C5 amended: while the provider template exists, observedGeneration =
\* generation implies that the provider template's description is
\* spec.description.
C5_ObservedGenerationImpliesDescription ==
    (ProviderTemplateExists /\ tObj.status.observedGeneration = tObj.generation)
    => fis[tObj.status.templateID].description = tObj.spec.description

C5_Witness ==
    /\ ProviderTemplateExists
    /\ lastOp = "TReconcile" /\ tPath = "update" /\ ~tResult.err
    /\ tObj.status.observedGeneration = tObj.generation
    /\ fis[tObj.status.templateID].targets /= convertTargets(tObj.spec.targets)

\* C6: once a create-path reconcile completes there is exactly one provider
\* template, the role the template uses, and one access triple in every
\* target namespace.
C6_ExactlyOneOfEachResource ==
    (lastOp = "TReconcile" /\ tPath = "create" /\ ~tResult.err)
    => /\ Cardinality(DOMAIN fis) = 1
       /\ \A ns \in getTargetNamespaces(tObj) : rbac[ns] = Triple
       /\ (tObj.status.roleArn = AutoRoleArn => iam.exists)

\* C7: every StartExperiment call carries an idempotency token, and no two
\* provider runs exist for the same one-shot Experiment or for the same due
\* cycle of a scheduled Experiment.
C7_NoDuplicateRun ==
    /\ \A i \in 1..Len(eTrace) :
         eTrace[i].call = "StartExperiment" => eTrace[i].n /= NoToken
    /\ \A r1, r2 \in DOMAIN runs : runs[r1].cycle = runs[r2].cycle => r1 = r2

\* C8: for an Experiment with empty spec.schedule, once status.experimentID
\* is non-empty no step changes it, and no reconcile calls StartExperiment
\* or creates a run.
C8_OneShotStartedOnce ==
    [][(eObj.spec.schedule = "" /\ eObj.status.experimentID /= NoID)
       => (/\ eObj'.status.experimentID = eObj.status.experimentID
           /\ DOMAIN runs' = DOMAIN runs
           /\ (lastOp' = "EReconcile" => ~HasCall(eTrace', "StartExperiment")))]_vars

C8_Witness ==
    /\ eObj.spec.schedule = "" /\ eObj.status.experimentID /= NoID
    /\ lastOp = "EReconcile" /\ ePath = "oneshot"
    /\ HasCall(eTrace, "GetExperiment")

\* The reconcile made a StartExperiment call that the provider accepted.
StartSucceeded(trace) ==
    \E i \in 1..Len(trace) : trace[i].call = "StartExperiment" /\ trace[i].ok

\* C9: for a scheduled Experiment, a reconcile that launches a due cycle
\* (start and status writes succeed) after an earlier cycle leaves in
\* status.experimentID an identifier different from the one it held.
C9_NewRunEachCycle ==
    [][(/\ eObj.spec.schedule /= ""
        /\ eObj.status.lastScheduleTime /= NoTime
        /\ lastOp' = "EReconcile" /\ ePath' = "scheduled" /\ ~eResult'.err
        /\ StartSucceeded(eTrace'))
       => eObj'.status.experimentID /= eObj.status.experimentID]_vars

\* The schedule occurrence the scheduled path would run is not after now.
Overdue(e) ==
    /\ ParseStandard(e.spec.schedule)
    /\ ScheduleNext(e.spec.schedule,
                    IF e.status.lastScheduleTime = NoTime THEN e.creation
                    ELSE e.status.lastScheduleTime) <= now

\* C10: a reconcile of an Experiment with spec.suspend = true issues no
\* StartExperiment call and creates no run.
C10_SuspendedNeverStarts ==
    [][(eObj.spec.suspend /\ lastOp' = "EReconcile")
       => (~HasCall(eTrace', "StartExperiment") /\ DOMAIN runs' = DOMAIN runs)]_vars

C10_Witness ==
    /\ eObj.spec.suspend /\ eObj.exists /\ eObj.finalizer
    /\ lastOp = "EReconcile" /\ ePath = "suspended"
    /\ Overdue(eObj)


\* Number of calls of c in a trace.
NumCalls(tr, c) == Cardinality({i \in 1..Len(tr) : tr[i].call = c})

\* A run-every-minute Experiment with no prior run that a reconcile takes to
\* the scheduled path.
NoPriorRun(e) ==
    /\ e.exists /\ ~e.deleting /\ e.finalizer /\ ~e.spec.suspend
    /\ e.spec.schedule = EveryMinute
    /\ e.status.lastScheduleTime = NoTime

\* C11 as stated: the first reconcile that handles the schedule of a
\* run-every-minute Experiment with no prior run makes exactly one
\* StartExperiment call.
C11_FirstReconcileStartsOnce ==
    [][(/\ NoPriorRun(eObj)
        /\ eObj.status.nextScheduleTime = NoTime
        /\ eObj.status.experimentID = NoID
        /\ lastOp' = "EReconcile" /\ ePath' = "scheduled")
       => NumCalls(eTrace', "StartExperiment") = 1]_vars

\* C11 amended: a reconcile that handles the schedule of a run-every-minute
\* Experiment with no prior run makes exactly one StartExperiment call when
\* the schedule's first occurrence after the creation time is not after now,
\* and none before that.
C11_FirstDueReconcileStartsOnce ==
    [][(NoPriorRun(eObj) /\ lastOp' = "EReconcile" /\ ePath' = "scheduled")
       => NumCalls(eTrace', "StartExperiment") = (IF Overdue(eObj) THEN 1 ELSE 0)]_vars

C11_Witness ==
    /\ eObj.exists /\ eObj.spec.schedule = EveryMinute
    /\ lastOp = "EReconcile" /\ ePath = "scheduled" /\ ~eResult.err
    /\ NumCalls(eTrace, "StartExperiment") = 1
    /\ eObj.status.lastScheduleTime /= NoTime
    /\ DOMAIN runs = {eObj.status.experimentID}
    /\ runs[eObj.status.experimentID].cycle = ScheduleNext(EveryMinute, eObj.creation)

\* C12: for a scheduled Experiment whose status records a last schedule
\* time, status.nextScheduleTime is the schedule's next occurrence after
\* status.lastScheduleTime.
C12_NextIsNextAfterLast ==
    (eObj.exists /\ ParseStandard(eObj.spec.schedule)
     /\ eObj.status.lastScheduleTime /= NoTime)
    => eObj.status.nextScheduleTime
       = ScheduleNext(eObj.spec.schedule, eObj.status.lastScheduleTime)


\* An Experiment that a reconcile takes to resolveTemplateID and that names
\* its template.
ResolvesByName(e) ==
    /\ e.exists /\ ~e.deleting /\ e.finalizer /\ ~e.spec.suspend
    /\ e.spec.id = NoID /\ e.spec.name /= ""

\* C13: a reconcile that resolves a template reference by name while the
\* named ExperimentTemplate has no status.templateID returns an error, makes
\* no StartExperiment call and starts no run; a later reconcile, made once
\* the template has its templateID and in which no call fails, stores that
\* identifier and goes on to the start of the run.
C13_NotReadyIsRetryable ==
    [][/\ (/\ ResolvesByName(eObj)
           /\ tObj.exists /\ tObj.status.templateID = NoID
           /\ lastOp' = "EReconcile")
          => (/\ eResult'.err
              /\ ~HasCall(eTrace', "StartExperiment")
              /\ runs' = runs
              /\ eObj'.status.experimentID = eObj.status.experimentID)
       /\ (/\ notReadySeen
           /\ ResolvesByName(eObj)
           /\ tObj.exists /\ tObj.status.templateID /= NoID
           /\ lastOp' = "EReconcile" /\ faults' = faults)
          => (/\ eObj'.status.templateID = tObj.status.templateID
              /\ ePath' \in {"oneshot", "scheduled"}
              /\ ((\/ eObj.spec.schedule = "" /\ eObj.status.experimentID = NoID
                   \/ Overdue(eObj))
                  => HasCall(eTrace', "StartExperiment")))]_vars

C13_Witness ==
    /\ notReadySeen
    /\ eObj.exists /\ eObj.spec.id = NoID /\ eObj.spec.name /= ""
    /\ lastOp = "EReconcile" /\ ePath = "oneshot" /\ ~eResult.err
    /\ StartSucceeded(eTrace)
    /\ eObj.status.templateID = tObj.status.templateID
    /\ eObj.status.experimentID \in DOMAIN runs


\* The entries of a trace that are not the listing call.
OtherCalls(tr) == {i \in 1..Len(tr) : tr[i].call /= "ListExperimentsByTemplate"}

\* x started strictly before y (a run without StartTime counts as oldest).
StartedBefore(x, y) ==
    /\ y.startTime /= NoTime
    /\ (x.startTime = NoTime \/ x.startTime < y.startTime)

\* The summaries of log that belong to the class (a set of states) are runs
\* of the template in a state of the class, as many as exceed the limit, and
\* none of them started after a run of the class that is not in log.
LoggedBeyond(log, rs, tid, class, limit) ==
    LET all == {[id |-> k, state |-> rs[k].state, startTime |-> rs[k].startTime] :
                   k \in {j \in DOMAIN rs : rs[j].templateID = tid /\ rs[j].state \in class}}
        logged == {log[i] : i \in {j \in 1..Len(log) : log[j].state \in class}}
    IN /\ logged \subseteq all
       /\ Cardinality(logged) = (IF Cardinality(all) > limit
                                 THEN Cardinality(all) - limit ELSE 0)
       /\ \A x \in logged, y \in all \ logged : ~StartedBefore(y, x)

\* C14: a call of cleanupExperimentHistory makes no call other than the
\* listing of the template's runs, changes no provider run and nothing of the
\* Experiment; when the listing succeeds what it logs are exactly the
\* completed runs beyond the successful limit and the failed or stopped runs
\* beyond the failed limit, oldest ones, and when it fails it logs nothing.
C14_HistoryOnlyListsAndLogs ==
    [][lastOp' = "CleanupHistory"
       => (/\ runs' = runs
           /\ eObj' = eObj
           /\ OtherCalls(eTrace') = {}
           /\ Len(eTrace') <= 1
           /\ \A i \in 1..Len(eLog') : eLog'[i].state \in {"completed", "failed", "stopped"}
           /\ IF ~HasCall(eTrace', "ListExperimentsByTemplate") \/ ~eTrace'[1].ok
              THEN eLog' = <<>>
              ELSE /\ LoggedBeyond(eLog', runs, eObj.status.templateID, {"completed"},
                                   HistoryLimit(eObj.spec.successLimit, DefaultSuccessLimit))
                   /\ LoggedBeyond(eLog', runs, eObj.status.templateID, {"failed", "stopped"},
                                   HistoryLimit(eObj.spec.failedLimit, DefaultFailedLimit)))]_vars

C14_Witness ==
    /\ lastOp = "CleanupHistory"
    /\ Len(eTrace) = 1 /\ eTrace[1].call = "ListExperimentsByTemplate" /\ eTrace[1].ok
    /\ Len(eLog) = 1
    /\ Cardinality(DOMAIN runs) = 2
    /\ \A k \in DOMAIN runs : IsFailed(runs[k]) /\ runs[k].templateID = eObj.status.templateID
    /\ runs[1].startTime > runs[2].startTime
    /\ eLog[1].id = 2


\* C15: no step deletes a role that this controller did not create: a role
\* of the generated name that exists and was created by someone else still
\* exists after every step.
C15_ExternalRoleNeverDeleted ==
    [][(iam.exists /\ iam.own /= "system") => iam'.exists]_vars


Digits == {"0", "3", "5"}

IsNumber(x) == x /= <<>> /\ \A i \in 1..Len(x) : x[i] \in Digits

\* ALL, COUNT(n) or PERCENT(n) for a number n
IsSelectionMode(out) ==
    \/ out = All
    \/ \E x \in StringsOver(ScopeChars, MaxScopeLen) :
         IsNumber(x) /\ (out = CountOf(x) \/ out = PercentOf(x))

\* C16: parseScope maps "ALL" to "ALL", "3" to "COUNT(3)" and "50%" to
\* "PERCENT(50)", and for every input its result is ALL, COUNT(n) or
\* PERCENT(n) with n a number.
C16_ParseScope ==
    conv.fn = "parseScope"
    => (/\ (conv.in = All => conv.out = All)
        /\ (conv.in = <<"3">> => conv.out = CountOf(<<"3">>))
        /\ (conv.in = <<"5", "0", "%">> => conv.out = PercentOf(<<"5", "0">>))
        /\ IsSelectionMode(conv.out))

\* C17: convertDuration maps "5m" to "PT5M"; a value that does not start
\* with "PT" maps to "PT" followed by the value in upper case; a value in
\* converted form (starting with "PT") is returned unchanged; and applying
\* convertDuration to its own result returns that result.
C17_ConvertDurationIdempotent ==
    /\ (conv.fn = "convertDuration"
        => (/\ (conv.in = <<"5", "m">> => conv.out = <<"P", "T", "5", "M">>)
            /\ (HasPTPrefix(conv.in) => conv.out = conv.in)
            /\ (~HasPTPrefix(conv.in) => conv.out = <<"P", "T">> \o ToUpper(conv.in))))
    /\ (conv.fn = "convertDurationAgain" => conv.out = conv.in)

C17_Witness ==
    /\ conv.fn = "convertDurationAgain"
    /\ conv.in = <<"P", "T", "5", "M">>
    /\ conv.out = <<"P", "T", "5", "M">>

\* The first non-empty of the role sources, in the order environment,
\* annotation, status.
RoleSource(t, c) ==
    IF c.envRoleArn /= "" THEN c.envRoleArn
    ELSE IF c.annRoleArn /= "" THEN c.annRoleArn
    ELSE t.status.roleArn

\* The first non-empty of the cluster sources, in the order environment,
\* annotation, controller ClusterARN.
ClusterSource(c) ==
    IF c.envCluster /= "" THEN c.envCluster
    ELSE IF c.annCluster /= "" THEN c.annCluster
    ELSE c.clusterARN

CallSucceeded(tr, c) == \E i \in 1..Len(tr) : tr[i].call = c /\ tr[i].ok

\* C19: a successful UpdateExperimentTemplate leaves the provider template
\* with the description of the spec and with the targets and the role it
\* had before, and leaves every other provider template as it was.
C19_UpdateChangesDescriptionOnly ==
    [][(lastOp' = "TReconcile" /\ CallSucceeded(tTrace', "UpdateExperimentTemplate"))
       => (/\ tObj.status.templateID \in DOMAIN fis
           /\ DOMAIN fis' = DOMAIN fis
           /\ fis'[tObj.status.templateID].description = tObj.spec.description
           /\ fis'[tObj.status.templateID].targets = fis[tObj.status.templateID].targets
           /\ fis'[tObj.status.templateID].roleArn = fis[tObj.status.templateID].roleArn
           /\ \A k \in DOMAIN fis \ {tObj.status.templateID} : fis'[k] = fis[k])]_vars

\* An update after the user changed both the description and the targets:
\* the provider template carries the new description and the old targets.
C19_Witness ==
    /\ lastOp = "TReconcile" /\ tPath = "update"
    /\ CallSucceeded(tTrace, "UpdateExperimentTemplate")
    /\ tObj.spec.description /= "d1"
    /\ fis[tObj.status.templateID].description = tObj.spec.description
    /\ fis[tObj.status.templateID].targets /= convertTargets(tObj.spec.targets)

\* The reconcile that left object after and trace tr did nothing but write
\* the finalizer.
AddsFinalizer(after, tr) ==
    /\ Len(tr) = 1 /\ tr[1].call = "UpdateAddFinalizer"
    /\ after.finalizer = tr[1].ok

\* C20: for both kinds, the first reconcile of an object that is not being
\* deleted writes the finalizer, and the finalizer is removed only by a
\* reconcile of an object that is being deleted and that has attempted every
\* cleanup step that applies to it (template: provider template, access
\* entry, role, access triples; experiment: stop of the run the status
\* records as running).
C20_FinalizerLifecycle ==
    [][/\ (lastOp' = "TReconcile" /\ ~tObj.deleting /\ ~tObj.finalizer)
          => AddsFinalizer(tObj', tTrace')
       /\ (lastOp' = "EReconcile" /\ ~eObj.deleting /\ ~eObj.finalizer)
          => AddsFinalizer(eObj', eTrace')
       /\ (tObj.finalizer /\ ~tObj'.finalizer)
          => (/\ lastOp' = "TReconcile" /\ tObj.deleting
              /\ CleanupCalls(tTrace') = ExpectedCleanup(tObj, cfg))
       /\ (eObj.finalizer /\ ~eObj'.finalizer)
          => (/\ lastOp' = "EReconcile" /\ eObj.deleting
              /\ ((eObj.status.experimentID /= NoID /\ eObj.status.state \in Running)
                  => HasCall(eTrace', "StopExperiment")))]_vars

\* Both objects are gone: the template after its four cleanup steps, the
\* Experiment after the stop of its running run.
C20_Witness ==
    /\ ~tObj.exists /\ ~tObj.finalizer /\ tPath = "delete"
    /\ Len(CleanupCalls(tTrace)) = 4
    /\ ~eObj.exists /\ ~eObj.finalizer /\ ePath = "delete"
    /\ HasCall(eTrace, "StopExperiment")

\* The values of status.phase and the edges of its state machine; the empty
\* phase of a new object counts as Pending.
Phases == {"", "Pending", "Creating", "Ready", "Failed", "Deleting"}

PhaseEdges ==
    {<<"", "Creating">>, <<"Pending", "Creating">>, <<"Creating", "Ready">>,
     <<"Ready", "Creating">>}
    \cup {<<p, "Failed">> : p \in Phases}
    \cup {<<p, "Deleting">> : p \in Phases}

\* C21: every change of status.phase is an edge of Pending -> Creating ->
\* Ready, Ready -> Creating, any -> Failed, any -> Deleting.
C21_PhaseFollowsStateMachine ==
    [][tObj'.status.phase /= tObj.status.phase
       => <<tObj.status.phase, tObj'.status.phase>> \in PhaseEdges]_vars

\* The call c of the trace tr failed.
CallFailed(tr, c) == \E i \in 1..Len(tr) : tr[i].call = c /\ ~tr[i].ok

\* The trace tr holds a call c for namespace ns with result ok.
NamespaceCall(tr, c, ns, ok) ==
    \E i \in 1..Len(tr) : tr[i].call = c /\ tr[i].ns = ns /\ tr[i].ok = ok

\* A create-path reconcile in which CreateExperimentTemplate failed has just
\* been made.
CreateTemplateFailed ==
    /\ lastOp' = "TReconcile" /\ tPath' = "create"
    /\ CallFailed(tTrace', "CreateExperimentTemplate")

\* C22: when CreateExperimentTemplate fails in the create path, the delete
\* of the access triple is attempted in every target namespace, a failing
\* delete not stopping the others; then phase Failed and the error message
\* are written to the status, and status.templateID stays empty.
C22_CreateFailureCompensates ==
    [][CreateTemplateFailed
       => (/\ \A ns \in getTargetNamespaces(tObj) :
                 \/ NamespaceCall(tTrace', "DeleteRBAC", ns, TRUE) /\ rbac'[ns] = {}
                 \/ NamespaceCall(tTrace', "DeleteRBAC", ns, FALSE)
           /\ tTrace'[Len(tTrace')].call = "StatusUpdate"
           /\ (tTrace'[Len(tTrace')].ok
               => /\ tObj'.status.phase = "Failed"
                  /\ tObj'.status.message = "createErr")
           /\ tObj'.status.templateID = NoID
           /\ fis' = fis
           /\ tResult'.err)]_vars

\* Two target namespaces: the compensation delete failed in one of them and
\* removed the triple of the other; Failed is recorded.
C22_Witness ==
    /\ lastOp = "TReconcile" /\ tPath = "create"
    /\ CallFailed(tTrace, "CreateExperimentTemplate")
    /\ \E a, b \in getTargetNamespaces(tObj) :
         /\ NamespaceCall(tTrace, "DeleteRBAC", a, FALSE)
         /\ NamespaceCall(tTrace, "DeleteRBAC", b, TRUE) /\ rbac[b] = {}
    /\ tObj.status.phase = "Failed" /\ tObj.status.templateID = NoID

\* C23: a create-path reconcile in which CreateExperimentTemplate failed
\* schedules no retry: it returns neither an error (which the work queue
\* retries with backoff) nor a requeue.
C23_CreateFailureNotRetried ==
    [][CreateTemplateFailed
       => (~tResult'.err /\ ~tResult'.requeue /\ tResult'.after = 0)]_vars

\* The EnsureAccessEntry calls of a trace, in order.
IsAccessEntryCall(c) == c.call = "EnsureAccessEntry"

AccessEntryCalls(tr) == SelectSeq(tr, IsAccessEntryCall)

\* The calls a are at most MaxAttempts attempts, the i-th after a wait of
\* i * WaitUnit seconds, none after a success.
RetriedWithBackoff(a) ==
    /\ Len(a) <= MaxAttempts
    /\ \A i \in 1..Len(a) : a[i].n = i * WaitUnit
    /\ \A i \in 1..(Len(a) - 1) : ~a[i].ok

\* C24: in a create-path reconcile that has just created the role and
\* reaches the access-entry step, the access-entry call is attempted at most
\* 3 times after waits of 5s, 10s and 15s, stopping at the first success;
\* when all 3 attempts fail the reconcile still writes templateID, the role,
\* Ready and observedGeneration = generation and returns no error.
C24_AccessEntryRetriedAfterRoleCreation ==
    [][(lastOp' = "TReconcile" /\ tPath' = "create"
        /\ CallSucceeded(tTrace', "PutRolePolicy")
        /\ HasCall(tTrace', "EnsureAccessEntry"))
       => (/\ RetriedWithBackoff(AccessEntryCalls(tTrace'))
           /\ ((Len(AccessEntryCalls(tTrace')) = MaxAttempts
                /\ CallSucceeded(tTrace', "StatusUpdate"))
               => /\ ~tResult'.err
                  /\ tObj'.status.templateID /= NoID
                  /\ tObj'.status.roleArn = AutoRoleArn
                  /\ tObj'.status.phase = "Ready"
                  /\ tObj'.status.observedGeneration = tObj.generation))]_vars

\* The create steps that follow getRequiredParameters.
LaterCreateSteps == {"SetupRBAC", "CreateExperimentTemplate", "EnsureAccessEntry"}

\* C25: in a create-path reconcile that has created the role, a status
\* write precedes every later create step, and the status carries the role
\* once such a step has been performed.
C25_RolePersistedBeforeProceeding ==
    [][(lastOp' = "TReconcile" /\ tPath' = "create"
        /\ CallSucceeded(tTrace', "PutRolePolicy"))
       => \A j \in 1..Len(tTrace') :
            tTrace'[j].call \in LaterCreateSteps
            => (/\ \E i \in 1..(j - 1) :
                     tTrace'[i].call = "StatusUpdate" /\ tTrace'[i].ok
                /\ tObj'.status.roleArn = AutoRoleArn)]_vars

\* The calls that provision access triples, the provider template or the
\* access entry.
ProvisioningCalls ==
    {"SetupRBAC", "CreateExperimentTemplate", "UpdateExperimentTemplate",
     "EnsureAccessEntry"}

\* C26: a create-path or update-path reconcile of a template whose targets
\* name no namespace returns an error without provisioning an access triple
\* and without calling the provider, and leaves status.templateID and
\* status.observedGeneration as they were.
C26_NoTargetNamespaceFailsFast ==
    [][(lastOp' = "TReconcile" /\ tPath' \in {"create", "update"}
        /\ getTargetNamespaces(tObj) = {})
       => (/\ tResult'.err
           /\ \A i \in 1..Len(tTrace') : tTrace'[i].call \notin ProvisioningCalls
           /\ UNCHANGED <<rbac, fis, fisIssued, ae>>
           /\ tObj'.status.templateID = tObj.status.templateID
           /\ tObj'.status.observedGeneration = tObj.status.observedGeneration)]_vars

\* An update reconcile after the user left the template without a target
\* namespace.
C26_Witness ==
    /\ lastOp = "TReconcile" /\ tPath = "update"
    /\ getTargetNamespaces(tObj) = {}
    /\ tResult.err
    /\ tObj.status.templateID /= NoID
    /\ tObj.status.observedGeneration < tObj.generation

\* C27: SetupExperimentTemplateRBAC succeeds and leaves the ServiceAccount,
\* the Role and the RoleBinding of the template in the namespace whatever
\* was there before, DeleteExperimentTemplateRBAC succeeds and leaves none
\* of them whatever was there before, and a call that repeats a successful
\* call changes nothing.
C27_TriplePrimitivesIdempotent ==
    [][/\ \A ns \in Namespaces :
            /\ SetupExperimentTemplateRBAC(rbac[ns], "none")
                 = [objs |-> Triple, err |-> FALSE]
            /\ DeleteExperimentTemplateRBAC(rbac[ns], "none")
                 = [objs |-> {}, err |-> FALSE]
       /\ (lastOp' = "SetupTriple" /\ tTrace'[1].ok)
          => /\ rbac'[tTrace'[1].ns] = Triple
             /\ \A ns \in Namespaces \ {tTrace'[1].ns} : rbac'[ns] = rbac[ns]
       /\ (lastOp' = "DeleteTriple" /\ tTrace'[1].ok)
          => /\ rbac'[tTrace'[1].ns] = {}
             /\ \A ns \in Namespaces \ {tTrace'[1].ns} : rbac'[ns] = rbac[ns]
       /\ (lastOp' \in {"SetupTriple", "DeleteTriple"} /\ tPath' = "repeat"
           /\ tTrace'[1].ok)
          => rbac' = rbac]_vars

\* A successful SetupExperimentTemplateRBAC that repeats a successful one.
C27_Witness ==
    /\ lastOp = "SetupTriple" /\ tPath = "repeat"
    /\ tTrace[1].ok
    /\ rbac[tTrace[1].ns] = Triple

\* The last call of the trace tr is a status write that succeeded.
StatusWritten(tr) ==
    tr /= <<>> /\ tr[Len(tr)].call = "StatusUpdate" /\ tr[Len(tr)].ok

\* C28: a reconcile of an object that is not being deleted and carries the
\* finalizer takes the update path exactly when status.templateID is set
\* and generation differs from status.observedGeneration; after a successful
\* UpdateExperimentTemplate the status carries Ready and observedGeneration
\* = generation, after a failed one it carries Failed and the error message
\* with observedGeneration as before, so that the update is still due.
C28_UpdatePath ==
    [][lastOp' = "TReconcile"
       => (/\ (~tObj.deleting /\ tObj.finalizer)
              => (tPath' = "update"
                  <=> (tObj.status.templateID /= NoID
                       /\ tObj.generation /= tObj.status.observedGeneration))
           /\ (tPath' = "update" /\ CallSucceeded(tTrace', "UpdateExperimentTemplate")
               /\ StatusWritten(tTrace'))
              => (/\ tObj'.status.phase = "Ready"
                  /\ tObj'.status.observedGeneration = tObj.generation
                  /\ ~tResult'.err)
           /\ (tPath' = "update" /\ CallFailed(tTrace', "UpdateExperimentTemplate"))
              => (/\ tResult'.err
                  /\ tObj'.status.observedGeneration = tObj.status.observedGeneration
                  /\ NeedsUpdate(tObj')
                  /\ StatusWritten(tTrace')
                     => (/\ tObj'.status.phase = "Failed"
                         /\ tObj'.status.message = "updateErr")))]_vars

\* An update that failed and left Failed, followed by nothing else: the
\* update is still due.
C28_Witness ==
    /\ lastOp = "TReconcile" /\ tPath = "update"
    /\ CallFailed(tTrace, "UpdateExperimentTemplate")
    /\ tObj.status.phase = "Failed"
    /\ NeedsUpdate(tObj)

\* The identifier the reference of e stands for: spec.experimentTemplate.id
\* when set, else status.templateID of the named template t, else none.
ReferencedTemplate(e, t) ==
    IF e.spec.id /= NoID THEN e.spec.id
    ELSE IF e.spec.name /= "" /\ t.exists THEN t.status.templateID
    ELSE NoID

\* The reconcile that left trace tr began with a status write.
BeganWithStatusWrite(tr) == tr /= <<>> /\ tr[1].call = "StatusUpdate"

\* C29: a reconcile that resolves the template reference uses
\* spec.experimentTemplate.id when it is set, whatever the named template
\* is and whether or not it can be read, and otherwise status.templateID of
\* the named template; with neither identifier nor name it returns an
\* error; it writes the resolved identifier to status.templateID exactly
\* when the stored value differs.
C29_TemplateReferenceResolution ==
    [][(lastOp' = "EReconcile" /\ ~eObj.deleting /\ eObj.finalizer /\ ~Suspended(eObj))
       => (/\ ePath' \in {"oneshot", "resolveErr", "notReady"}
           /\ ePath' = "oneshot"
              => (/\ ReferencedTemplate(eObj, tObj) /= NoID
                  /\ eObj'.status.templateID = ReferencedTemplate(eObj, tObj)
                  /\ BeganWithStatusWrite(eTrace')
                     <=> eObj.status.templateID /= ReferencedTemplate(eObj, tObj))
           /\ (eObj.spec.id /= NoID /\ ePath' /= "oneshot")
              => (/\ eObj.status.templateID /= eObj.spec.id
                  /\ eTrace' = <<Call("StatusUpdate", FALSE, "", 0)>>)
           /\ ReferencedTemplate(eObj, tObj) = NoID
              => (/\ ePath' \in {"resolveErr", "notReady"}
                  /\ eResult'.err
                  /\ ~HasCall(eTrace', "StartExperiment")
                  /\ eObj'.status.templateID = eObj.status.templateID))]_vars

\* Identifier and name are both set and the named template has no
\* identifier yet: the reconcile resolved to spec.experimentTemplate.id,
\* stored it and started the run.
C29_Witness ==
    /\ lastOp = "EReconcile" /\ ePath = "oneshot"
    /\ eObj.spec.id = ExternalTemplateID /\ eObj.spec.name /= ""
    /\ tObj.exists /\ tObj.status.templateID = NoID
    /\ eObj.status.templateID = ExternalTemplateID
    /\ BeganWithStatusWrite(eTrace)
    /\ CallSucceeded(eTrace, "StartExperiment")

\* States in which a provider run is in progress, and those in which it
\* has ended.
NonTerminal == {"initiating", "pending", "running", "stopping"}

Terminal == {"completed", "stopped", "failed"}

\* No call of the trace tr failed.
NoCallFailed(tr) == \A i \in 1..Len(tr) : tr[i].ok

\* e is a one-shot Experiment that has been started and is not being
\* deleted.
StartedOneShot(e) ==
    /\ e.exists /\ ~e.deleting /\ e.finalizer
    /\ e.spec.schedule = "" /\ e.status.experimentID /= NoID

\* The reconcile just made left the state of the run in status.state, with
\* a requeue after 10s while the run is in progress and none once it ended.
Polled ==
    /\ eObj.status.experimentID \in DOMAIN runs
    /\ eObj'.status.state = runs[eObj.status.experimentID].state
    /\ eObj'.status.state \in NonTerminal => eResult' = Result(FALSE, FALSE, 10)
    /\ eObj'.status.state \in Terminal => eResult' = Result(FALSE, FALSE, 0)

InvalidScheduleReconciled ==
    /\ lastOp' = "EReconcile" /\ ePath' = "scheduled"
    /\ ~ParseStandard(eObj.spec.schedule)

\* C31: a reconcile of a scheduled Experiment whose cron expression does
\* not parse records state failed with a reason (when the status write
\* that ends it succeeds), makes no StartExperiment call, computes no
\* next-run time and schedules no retry: it returns neither an error (which
\* the work queue retries with backoff) nor a requeue.
C31_InvalidScheduleIsTerminal ==
    [][InvalidScheduleReconciled
       => (/\ eTrace'[Len(eTrace')].ok
              => (eObj'.status.state = "failed" /\ eObj'.status.reason = "badSchedule")
           /\ ~HasCall(eTrace', "StartExperiment")
           /\ eObj'.status.nextScheduleTime = eObj.status.nextScheduleTime
           /\ ~eResult'.err /\ ~eResult'.requeue /\ eResult'.after = 0)]_vars

\* The reconcile just made took the scheduled path with a schedule that
\* parses.
ScheduleReconciled ==
    /\ lastOp' = "EReconcile" /\ ePath' = "scheduled"
    /\ ParseStandard(eObj.spec.schedule)

\* The schedule's next occurrence after the reference time of e.
DueOccurrence(e) ==
    ScheduleNext(e.spec.schedule,
                 IF e.status.lastScheduleTime = NoTime THEN e.creation
                 ELSE e.status.lastScheduleTime)

\* C32: a reconcile that handles a schedule makes a StartExperiment call
\* if and only if the schedule's next occurrence after the reference time
\* (status.lastScheduleTime, or the creation time when there is none) is
\* not after now.  If it starts a run and no call fails, the time after the
\* start is recorded as lastScheduleTime and the occurrence after the due
\* one as nextScheduleTime; if it does not and no call fails, the next
\* occurrence is stored and the reconcile requeues at it.
C32_StartedIffDue ==
    [][ScheduleReconciled
       => (/\ HasCall(eTrace', "StartExperiment") <=> Overdue(eObj)
           /\ (Overdue(eObj) /\ NoCallFailed(eTrace'))
              => (/\ eObj'.status.lastScheduleTime = now'
                  /\ eObj'.status.lastScheduleTime >= now
                  /\ eObj'.status.nextScheduleTime
                     = ScheduleNext(eObj.spec.schedule, DueOccurrence(eObj)))
           /\ (~Overdue(eObj) /\ NoCallFailed(eTrace'))
              => (/\ eObj'.status.nextScheduleTime = DueOccurrence(eObj)
                  /\ eObj'.status.lastScheduleTime = eObj.status.lastScheduleTime
                  /\ eResult' = Result(FALSE, FALSE, DueOccurrence(eObj) - now)))]_vars

\* A second run was started: the occurrence after the recorded
\* lastScheduleTime had become due.
C32_Witness ==
    /\ lastOp = "EReconcile" /\ ePath = "scheduled"
    /\ StartSucceeded(eTrace) /\ NoCallFailed(eTrace)
    /\ Cardinality(DOMAIN runs) = 2
    /\ eObj.status.lastScheduleTime = now
    /\ eObj.status.nextScheduleTime /= NoTime

\* C33: a reconcile of an Experiment that is being deleted calls
\* StopExperiment exactly when status.experimentID is set and status.state
\* is initiating, pending or running, and goes on to remove the finalizer
\* whether or not that call succeeds: the reconcile fails only if the write
\* that removes the finalizer fails.
C33_StopIsBestEffort ==
    [][(lastOp' = "EReconcile" /\ eObj.exists /\ eObj.deleting)
       => (/\ HasCall(eTrace', "StopExperiment")
              <=> (eObj.status.experimentID /= NoID /\ eObj.status.state \in Running)
           /\ HasCall(eTrace', "UpdateRemoveFinalizer")
           /\ CallSucceeded(eTrace', "UpdateRemoveFinalizer")
              => (~eObj'.exists /\ ~eObj'.finalizer)
           /\ eResult'.err <=> CallFailed(eTrace', "UpdateRemoveFinalizer"))]_vars

\* The stop call failed and the object is gone all the same.
C33_Witness ==
    /\ lastOp = "EReconcile" /\ ePath = "delete"
    /\ CallFailed(eTrace, "StopExperiment")
    /\ CallSucceeded(eTrace, "UpdateRemoveFinalizer")
    /\ ~eObj.exists /\ ~eResult.err

\* Worker w is about to read the FISClient field, or to write it.
ReadsField(w) == pc[w].at \in {"check", "use"}

WritesField(w) == pc[w].at = "assign"

\* C34: the FISClient field is not assigned once reconciles run, and at no
\* moment is one reconcile about to write the field while another is about
\* to read or write it.
C34_ClientsNeverAssigned ==
    /\ [][fisClient' = fisClient]_vars
    /\ [](\A v, w \in Workers :
            (v /= w /\ WritesField(v)) => ~(ReadsField(w) \/ WritesField(w)))

\* The reconcile just made got its role from EnsureIAMRole (no role is
\* configured or recorded) and went on to complete the create path, so
\* EnsureIAMRole returned the ARN without error.
EnsuredRoleUsed ==
    /\ lastOp' = "TReconcile" /\ tPath' = "create" /\ ~tResult'.err
    /\ FirstNonEmpty(cfg.envRoleArn, cfg.annRoleArn, tObj.status.roleArn) = ""
    /\ tObj'.status.roleArn = AutoRoleArn

\* C36: whenever EnsureIAMRole has returned a role ARN without error, the
\* role exists and has its inline permission policy.
C36_EnsuredRoleHasPolicy ==
    [][EnsuredRoleUsed => (iam'.exists /\ iam'.policy)]_vars

\* The access triple of the template is present in namespace ns.
TripleProvisioned(ns) == ns \in DOMAIN rbac' /\ rbac'[ns] = Triple

\* C37: after a create path that succeeded, every namespace a target of
\* the provider template names holds the template's access triple.
C37_TemplateNamespacesProvisioned ==
    [][(/\ lastOp' = "TReconcile" /\ tPath' = "create" /\ ~tResult'.err
        /\ CallSucceeded(tTrace', "CreateExperimentTemplate"))
       => \A ns \in fis'[tObj'.status.templateID].targets : TripleProvisioned(ns)]_vars

\* The result of a reconcile that only wrote the finalizer: a requeue if the
\* write succeeded, its error if not.
FinalizerResult(after) ==
    IF after.finalizer THEN Result(FALSE, TRUE, 0) ELSE Result(TRUE, FALSE, 0)

\* C35: a reconcile of an object that is not being deleted and has no
\* finalizer yet makes no call but the write of the finalizer, changes no
\* role, access entry, access triple, provider template or run, and returns
\* a requeue, or the error of the write if it failed; roles, access
\* entries, access triples and provider templates change only in a
\* reconcile of a template that has the finalizer, and runs are started only
\* in a reconcile of an Experiment that has it.
C35_NoMutationBeforeFinalizer ==
    [][/\ (lastOp' = "TReconcile" /\ ~tObj.deleting /\ ~tObj.finalizer)
          => (/\ CallNames(tTrace') = <<"UpdateAddFinalizer">>
              /\ <<fis', fisIssued', iam', ae', rbac'>> = <<fis, fisIssued, iam, ae, rbac>>
              /\ tResult' = FinalizerResult(tObj'))
       /\ (lastOp' = "EReconcile" /\ ~eObj.deleting /\ ~eObj.finalizer)
          => (/\ CallNames(eTrace') = <<"UpdateAddFinalizer">>
              /\ runs' = runs
              /\ eResult' = FinalizerResult(eObj'))
       /\ <<fis', fisIssued', iam', ae', rbac'>> /= <<fis, fisIssued, iam, ae, rbac>>
          => (lastOp' = "TReconcile" /\ tObj.finalizer)
       /\ DOMAIN runs' /= DOMAIN runs
          => (lastOp' = "EReconcile" /\ eObj.finalizer)]_vars

\* The write of the finalizer of an Experiment failed: the reconcile
\* returned the error and no run exists.
C35_Witness ==
    /\ lastOp = "EReconcile" /\ ePath = "finalizer"
    /\ CallFailed(eTrace, "UpdateAddFinalizer")
    /\ ~eObj.finalizer /\ eResult.err /\ runs = <<>>

\* status.state or status.active changes although a run is recorded.
RunStatusChanges ==
    /\ eObj.exists /\ eObj.spec.schedule /= "" /\ eObj.status.experimentID /= NoID
    /\ <<eObj'.status.state, eObj'.status.active>>
       /= <<eObj.status.state, eObj.status.active>>

\* The reconcile just made started a run, or failed to start one or to
\* resolve the template reference.
StartedOrFailed ==
    /\ lastOp' = "EReconcile"
    /\ \/ StartSucceeded(eTrace')
       \/ CallFailed(eTrace', "StartExperiment")
       \/ ePath' \in {"notReady", "resolveErr"}

\* No reconcile of an Experiment with a schedule calls GetExperiment, and a
\* reconcile that starts a run without a failing call leaves state
\* initiating and active 1.
NeverPolled ==
    (eObj.exists /\ eObj.spec.schedule /= "" /\ lastOp' = "EReconcile")
    => (/\ ~HasCall(eTrace', "GetExperiment")
        /\ (StartSucceeded(eTrace') /\ NoCallFailed(eTrace'))
           => (eObj'.status.state = "initiating" /\ eObj'.status.active = 1))

C39_MissedRunsCollapsed ==
    [][lastOp' = "EReconcile"
       => (/\ NumCalls(eTrace', "StartExperiment") <= 1
           /\ (HasCall(eTrace', "StartExperiment") /\ eObj.spec.schedule /= ""
               /\ eObj.status.lastScheduleTime /= NoTime)
              => ScheduleNext(eObj.spec.schedule, eObj.status.lastScheduleTime) <= now)]_vars

\* One run was started by a reconcile that found the occurrence after the
\* due one passed as well (the next schedule time it stored was not after
\* the time it began).
C39_Witness ==
    /\ lastOp = "EReconcile" /\ ePath = "scheduled" /\ ~eResult.err
    /\ NumCalls(eTrace, "StartExperiment") = 1 /\ StartSucceeded(eTrace)
    /\ eResult.after <= 0
    /\ eObj.status.lastScheduleTime = now

\* C40: a reconcile that handles a schedule and returns without error
\* returns a requeue delay that is strictly positive, and the
\* nextScheduleTime it stored is later than the time it began.
C40_RequeueDelayPositive ==
    [][(ScheduleReconciled /\ ~eResult'.err)
       => (eResult'.after > 0 /\ eObj'.status.nextScheduleTime > now)]_vars

====
